---- MODULE Spec2Model ----
(***************************************************************************)
(* Combat core of texting_of_isaac: the esper entity store, the component  *)
(* constructors, the collision and damage resolver, the blast-damage       *)
(* primitive, the homing steering, the boss AI state machine and its       *)
(* pattern generators, the invincibility ticker, the door loop with the    *)
(* room manager, the game state machine and the frame driver.              *)
(*                                                                         *)
(* Units.  Lengths are in tenths of a world unit (PROJECTILE_HITBOX 0.2 is *)
(* 2), health and damage in whole hearts, times in quarters of a second    *)
(* (INVINCIBILITY_DURATION 0.5 s is 2), processor priorities in tenths.    *)
(* The circle tests compare squared integer distances, which orders the    *)
(* same way as math.sqrt on these magnitudes.                              *)
(***************************************************************************)
EXTENDS Integers, Sequences, FiniteSets, TLC

VARIABLES
    world,        \* the esper database: entities, dead set, component maps
    bomb_system,  \* CollisionSystem.bomb_system is set (TRUE) or None (FALSE)
    op,           \* the last operation that ran, with its dt
    prev,         \* the database as it was before the last operation
    log,          \* handler invocations made by the last operation, in order
    raised,       \* exception that ended the last operation, "none" if none
    ticks,        \* number of system passes run so far
    blasts,       \* number of bomb blasts set off so far
    transitions,  \* number of times the phase-transition body has run
    processors,   \* esper._processors of the engine, in processing order
    trace,        \* processors run by the last engine update, in order
    room_manager, \* CollisionSystem.room_manager: <<>> for None, else <<manager>>
    current_state,\* GameStateSystem.current_state
    victory       \* FloorTransitionSystem.victory

vars == <<world, bomb_system, op, prev, log, raised, ticks, blasts, transitions,
          processors, trace, room_manager, current_state, victory>>

-----------------------------------------------------------------------------
(* Bounds of the model *)

MaxLoot == 2
MaxLootRolls == 1
MaxSteps == 2
MaxBlasts == 2

-----------------------------------------------------------------------------
(* Program constants *)

PLAYER_MAX_HP == 6
PLAYER_HITBOX == 3
ENEMY_HITBOX == 5
PROJECTILE_HITBOX == 2
ITEM_COLLIDER == 4
INVINCIBILITY_DURATION == 2
BOMB_BLAST_RADIUS == 20
BOMB_DAMAGE == 1
CONTACT_DAMAGE == 1
BOSS_PROJECTILE_DAMAGE == 1
BOSS_PROJECTILE_OWNER == -1
BOSS_PATTERN_COOLDOWN == 12
CHASER_HP == 3
ROOM_WIDTH == 600
ROOM_HEIGHT == 200
DOOR_COLLIDER_RADIUS == 10


-----------------------------------------------------------------------------
(* esper primitives over a database record w *)

EmptyMap == [e \in {} |-> 0]

Restrict(f, S) == [e \in (DOMAIN f) \cap S |-> f[e]]

Put(f, e, v) == [x \in (DOMAIN f) \cup {e} |-> IF x = e THEN v ELSE f[x]]

entity_exists(w, e) == e \in w.entities /\ e \notin w.dead_entities

delete_entity(w, e) == [w EXCEPT !.dead_entities = @ \cup {e}]

clear_dead_entities(w) ==
    LET keep == w.entities \ w.dead_entities IN
    [w EXCEPT !.entities = keep,
              !.dead_entities = {},
              !.Position = Restrict(@, keep),
              !.Velocity = Restrict(@, keep),
              !.Collider = Restrict(@, keep),
              !.Health = Restrict(@, keep),
              !.Projectile = Restrict(@, keep),
              !.Invincible = Restrict(@, keep),
              !.CollectedItems = Restrict(@, keep),
              !.Boss = Restrict(@, keep),
              !.BossAI = Restrict(@, keep),
              !.Door = Restrict(@, keep),
              !.Player = @ \cap keep,
              !.Enemy = @ \cap keep,
              !.Dead = @ \cap keep,
              !.Item = @ \cap keep,
              !.Coin = @ \cap keep]

EmptyWorld ==
    [entity_count |-> 0, entities |-> {}, dead_entities |-> {},
     Position |-> EmptyMap, Velocity |-> EmptyMap, Collider |-> EmptyMap, Health |-> EmptyMap,
     Projectile |-> EmptyMap, Invincible |-> EmptyMap,
     CollectedItems |-> EmptyMap, Boss |-> EmptyMap, BossAI |-> EmptyMap,
     Door |-> EmptyMap,
     Player |-> {}, Enemy |-> {}, Dead |-> {}, Item |-> {}, Coin |-> {}]

\* esper.create_entity: the next value of the entity counter
create_entity(w) ==
    [w EXCEPT !.entity_count = @ + 1, !.entities = @ \cup {w.entity_count + 1}]

Pt(x, y) == [x |-> x, y |-> y]

\* a velocity (speed*cos(angle), speed*sin(angle)), kept as its speed in tenths
\* per second and its angle in half degrees
Polar(speed, angle) == [speed |-> speed, angle |-> angle]

DistSq(p, q) == (q.x - p.x) * (q.x - p.x) + (q.y - p.y) * (q.y - p.y)

\* iteration order of esper.get_components: ascending entity id
RECURSIVE SetToSeq(_)
SetToSeq(S) ==
    IF S = {} THEN <<>>
    ELSE LET m == CHOOSE x \in S : \A y \in S : x <= y
         IN <<m>> \o SetToSeq(S \ {m})

-----------------------------------------------------------------------------
(* Component constructors.  A call gives [raised, component]: the exception
   it raises, "none" if none, and the component it returns, if any. *)

\* Health.__init__ without the test current > max_hp
Health_allowing_excess(current, max_hp) ==
    IF current < 0 \/ max_hp < 0
    THEN [raised |-> "ValueError", component |-> <<>>]
    ELSE [raised |-> "none", component |-> <<[current |-> current, max |-> max_hp]>>]

Health(current, max_hp) ==
    IF current < 0 THEN [raised |-> "ValueError", component |-> <<>>]
    ELSE IF max_hp < 0 THEN [raised |-> "ValueError", component |-> <<>>]
    ELSE IF current > max_hp THEN [raised |-> "ValueError", component |-> <<>>]
    ELSE [raised |-> "none", component |-> <<[current |-> current, max |-> max_hp]>>]

Collider(radius) ==
    IF radius < 0 THEN [raised |-> "ValueError", component |-> <<>>]
    ELSE [raised |-> "none", component |-> <<radius>>]

Projectile(damage, owner) ==
    IF damage < 0 THEN [raised |-> "ValueError", component |-> <<>>]
    ELSE [raised |-> "none", component |-> <<[damage |-> damage, owner |-> owner]>>]

Invincible(duration) ==
    IF duration < 0 THEN [raised |-> "ValueError", component |-> <<>>]
    ELSE [raised |-> "none", component |-> <<duration>>]

-----------------------------------------------------------------------------
(* Entity factories *)

create_player(w, pos) ==
    LET w1 == create_entity(w)
        e == w1.entity_count
    IN [w1 EXCEPT !.Position = Put(@, e, pos),
                  !.Velocity = Put(@, e, Polar(0, 0)),
                  !.Health = Put(@, e, [current |-> PLAYER_MAX_HP, max |-> PLAYER_MAX_HP]),
                  !.Collider = Put(@, e, PLAYER_HITBOX),
                  !.Player = @ \cup {e}]

create_enemy(w, pos) ==
    LET w1 == create_entity(w)
        e == w1.entity_count
    IN [w1 EXCEPT !.Position = Put(@, e, pos),
                  !.Velocity = Put(@, e, Polar(0, 0)),
                  !.Health = Put(@, e, [current |-> CHASER_HP, max |-> CHASER_HP]),
                  !.Collider = Put(@, e, ENEMY_HITBOX),
                  !.Enemy = @ \cup {e}]

create_projectile(w, pos, vel, damage, owner) ==
    LET w1 == create_entity(w)
        e == w1.entity_count
    IN [w1 EXCEPT !.Position = Put(@, e, pos),
                  !.Velocity = Put(@, e, vel),
                  !.Projectile = Put(@, e, [damage |-> damage, owner |-> owner]),
                  !.Collider = Put(@, e, PROJECTILE_HITBOX)]

create_item(w, pos) ==
    LET w1 == create_entity(w)
        e == w1.entity_count
    IN [w1 EXCEPT !.Position = Put(@, e, pos),
                  !.Collider = Put(@, e, ITEM_COLLIDER),
                  !.Item = @ \cup {e}]

spawn_coin(w, pos) ==
    LET w1 == create_entity(w)
        e == w1.entity_count
    IN [w1 EXCEPT !.Position = Put(@, e, pos),
                  !.Coin = @ \cup {e}]

-----------------------------------------------------------------------------
(* Blast-damage primitive: BombSystem.damage_entities_in_radius(center, radius) *)

\* blast_loop with an exclusive radius test
RECURSIVE blast_loop_exclusive(_, _, _, _)
blast_loop_exclusive(w, todo, center, radius) ==
    IF todo = <<>> THEN w
    ELSE LET ent == Head(todo)
             h == w.Health[ent]
             hit == /\ ~(h.current <= 0)
                    /\ ~(ent \in w.Player /\ ent \in DOMAIN w.Invincible)
                    /\ DistSq(center, w.Position[ent]) < radius * radius
         IN blast_loop_exclusive(
                IF hit THEN [w EXCEPT !.Health[ent].current = @ - BOMB_DAMAGE] ELSE w,
                Tail(todo), center, radius)

RECURSIVE blast_loop(_, _, _, _)
blast_loop(w, todo, center, radius) ==
    IF todo = <<>> THEN w
    ELSE LET ent == Head(todo)
             h == w.Health[ent]
             hit == /\ ~(h.current <= 0)
                    /\ ~(ent \in w.Player /\ ent \in DOMAIN w.Invincible)
                    /\ DistSq(center, w.Position[ent]) <= radius * radius
         IN blast_loop(IF hit THEN [w EXCEPT !.Health[ent].current = @ - BOMB_DAMAGE]
                       ELSE w,
                       Tail(todo), center, radius)

damage_entities_in_radius(w, center, radius) ==
    blast_loop(w, SetToSeq(DOMAIN w.Position \cap DOMAIN w.Health), center, radius)

-----------------------------------------------------------------------------
(* CollisionSystem.  A pass threads st = [w, log, raised, nrolls]. *)

LootOutcomes == [item : BOOLEAN, coins : {0, 1, 2}]

Raise(st, exc) == [st EXCEPT !.raised = exc]

Logged(st, rule, a, b) ==
    [st EXCEPT !.log = Append(@, [rule |-> rule, a |-> a, b |-> b])]

\* check_collision that counts touching circles as a collision
check_collision_touching(w, e1, e2) ==
    LET rsum == w.Collider[e1] + w.Collider[e2]
    IN DistSq(w.Position[e1], w.Position[e2]) <= rsum * rsum

check_collision(w, e1, e2) ==
    LET rsum == w.Collider[e1] + w.Collider[e2]
    IN DistSq(w.Position[e1], w.Position[e2]) < rsum * rsum

owner_is_player(w, owner) == entity_exists(w, owner) /\ owner \in w.Player

owner_is_enemy(w, owner) == entity_exists(w, owner) /\ owner \in w.Enemy

\* collected.has_effect(name) of the projectile's owner, False when the owner
\* is gone, is not the player or carries no CollectedItems
owner_has_effect(w, owner, name) ==
    /\ owner_is_player(w, owner)
    /\ owner \in DOMAIN w.CollectedItems
    /\ name \in w.CollectedItems[owner]

RECURSIVE spawn_coins(_, _, _)
spawn_coins(w, pos, n) ==
    IF n = 0 THEN w ELSE spawn_coins(spawn_coin(w, pos), pos, n - 1)

\* lines 168-185: loot rolls and deletion of an enemy whose health is <= 0
enemy_death(st, enemy, rolls) ==
    LET w == st.w
        k == IF st.nrolls < MaxLootRolls THEN st.nrolls + 1 ELSE MaxLootRolls
        roll == rolls[k]
        pos == w.Position[enemy]
        w1 == IF roll.item THEN create_item(w, pos) ELSE w
        w2 == spawn_coins(w1, pos, roll.coins)
    IN [st EXCEPT !.w = delete_entity(w2, enemy), !.nrolls = @ + 1]

\* projectile_hit_enemy with the piercing test dropped: the projectile is
\* deleted on every non-explosive hit
projectile_hit_enemy_ignoring_piercing(st0, projectile, enemy, bs, rolls) ==
    LET st == Logged(st0, "projectile_hit_enemy", projectile, enemy)
        w == st.w
        proj == w.Projectile[projectile]
    IN IF enemy \notin DOMAIN w.Health THEN Raise(st, "KeyError")
       ELSE
       LET w1 == [w EXCEPT !.Health[enemy].current = @ - proj.damage]
           st1 == [st EXCEPT !.w = w1]
           has_explosive == owner_has_effect(w1, proj.owner, "explosive")
       IN IF has_explosive /\ bs
          THEN Raise(st1, "AttributeError")
          ELSE LET st2 == [st1 EXCEPT !.w = delete_entity(w1, projectile)]
               IN IF st2.w.Health[enemy].current <= 0
                  THEN enemy_death(st2, enemy, rolls)
                  ELSE st2

projectile_hit_enemy(st0, projectile, enemy, bs, rolls) ==
    LET st == Logged(st0, "projectile_hit_enemy", projectile, enemy)
        w == st.w
        proj == w.Projectile[projectile]
    IN IF enemy \notin DOMAIN w.Health THEN Raise(st, "KeyError")
       ELSE
       LET w1 == [w EXCEPT !.Health[enemy].current = @ - proj.damage]
           st1 == [st EXCEPT !.w = w1]
           has_explosive == owner_has_effect(w1, proj.owner, "explosive")
           has_piercing == owner_has_effect(w1, proj.owner, "piercing")
       IN IF has_explosive /\ bs
          THEN \* line 148 reads Config.EXPLOSIVE_TEAR_DAMAGE_MULTIPLIER, which
               \* src/config.py does not define: AttributeError, after the
               \* direct damage and before the blast and the deletion
               Raise(st1, "AttributeError")
          ELSE LET st2 == IF ~has_piercing
                          THEN [st1 EXCEPT !.w = delete_entity(w1, projectile)]
                          ELSE st1
               IN IF st2.w.Health[enemy].current <= 0
                  THEN enemy_death(st2, enemy, rolls)
                  ELSE st2

\* projectile_hit_player that forgets to grant Invincible after the damage
projectile_hit_player_without_grant(st0, projectile, player) ==
    LET st == Logged(st0, "projectile_hit_player", projectile, player)
        w == st.w
    IN IF player \in DOMAIN w.Invincible
       THEN [st EXCEPT !.w = delete_entity(w, projectile)]
       ELSE IF player \notin DOMAIN w.Health THEN Raise(st, "KeyError")
       ELSE LET proj == w.Projectile[projectile]
                w1 == [w EXCEPT !.Health[player].current = @ - proj.damage]
                w2 == delete_entity(w1, projectile)
            IN [st EXCEPT !.w = IF w2.Health[player].current <= 0
                                THEN [w2 EXCEPT !.Dead = @ \cup {player}]
                                ELSE w2]

\* projectile_hit_player with the invincibility test dropped
projectile_hit_player_ignoring_invincible(st0, projectile, player) ==
    LET st == Logged(st0, "projectile_hit_player", projectile, player)
        w == st.w
    IN IF player \notin DOMAIN w.Health THEN Raise(st, "KeyError")
       ELSE LET proj == w.Projectile[projectile]
                w1 == [w EXCEPT !.Health[player].current = @ - proj.damage,
                                !.Invincible = Put(@, player, INVINCIBILITY_DURATION)]
                w2 == delete_entity(w1, projectile)
            IN [st EXCEPT !.w = IF w2.Health[player].current <= 0
                                THEN [w2 EXCEPT !.Dead = @ \cup {player}]
                                ELSE w2]

projectile_hit_player(st0, projectile, player) ==
    LET st == Logged(st0, "projectile_hit_player", projectile, player)
        w == st.w
    IN IF player \in DOMAIN w.Invincible
       THEN [st EXCEPT !.w = delete_entity(w, projectile)]
       ELSE IF player \notin DOMAIN w.Health THEN Raise(st, "KeyError")
       ELSE LET proj == w.Projectile[projectile]
                w1 == [w EXCEPT !.Health[player].current = @ - proj.damage,
                                !.Invincible = Put(@, player, INVINCIBILITY_DURATION)]
                w2 == delete_entity(w1, projectile)
            IN [st EXCEPT !.w = IF w2.Health[player].current <= 0
                                THEN [w2 EXCEPT !.Dead = @ \cup {player}]
                                ELSE w2]

\* enemy_contact_player that marks the player Dead only below zero health
enemy_contact_player_dead_below_zero(st0, enemy, player) ==
    LET st == Logged(st0, "enemy_contact_player", enemy, player)
        w == st.w
    IN IF player \in DOMAIN w.Invincible THEN st
       ELSE IF player \notin DOMAIN w.Health THEN Raise(st, "KeyError")
       ELSE LET w1 == [w EXCEPT !.Health[player].current = @ - CONTACT_DAMAGE,
                                !.Invincible = Put(@, player, INVINCIBILITY_DURATION)]
            IN [st EXCEPT !.w = IF w1.Health[player].current < 0
                                THEN [w1 EXCEPT !.Dead = @ \cup {player}]
                                ELSE w1]

\* enemy_contact_player that restarts the window on a blocked touch
enemy_contact_player_refreshing(st0, enemy, player) ==
    LET st == Logged(st0, "enemy_contact_player", enemy, player)
        w == st.w
    IN IF player \in DOMAIN w.Invincible
       THEN [st EXCEPT !.w.Invincible = Put(@, player, INVINCIBILITY_DURATION)]
       ELSE IF player \notin DOMAIN w.Health THEN Raise(st, "KeyError")
       ELSE LET w1 == [w EXCEPT !.Health[player].current = @ - CONTACT_DAMAGE,
                                !.Invincible = Put(@, player, INVINCIBILITY_DURATION)]
            IN [st EXCEPT !.w = IF w1.Health[player].current <= 0
                                THEN [w1 EXCEPT !.Dead = @ \cup {player}]
                                ELSE w1]

enemy_contact_player(st0, enemy, player) ==
    LET st == Logged(st0, "enemy_contact_player", enemy, player)
        w == st.w
    IN IF player \in DOMAIN w.Invincible THEN st
       ELSE IF player \notin DOMAIN w.Health THEN Raise(st, "KeyError")
       ELSE LET w1 == [w EXCEPT !.Health[player].current = @ - CONTACT_DAMAGE,
                                !.Invincible = Put(@, player, INVINCIBILITY_DURATION)]
            IN [st EXCEPT !.w = IF w1.Health[player].current <= 0
                                THEN [w1 EXCEPT !.Dead = @ \cup {player}]
                                ELSE w1]

\* handle_projectile_enemy that trusts the owner without the existence test:
\* only a projectile whose owner is the player hits
handle_projectile_enemy_owner_must_be_player(st, e1, e2, bs, rolls) ==
    LET w == st.w IN
    IF e1 \in DOMAIN w.Projectile /\ e2 \in w.Enemy
    THEN IF w.Projectile[e1].owner \in w.Player
         THEN projectile_hit_enemy(st, e1, e2, bs, rolls)
         ELSE st
    ELSE IF e2 \in DOMAIN w.Projectile /\ e1 \in w.Enemy
    THEN IF w.Projectile[e2].owner \in w.Player
         THEN projectile_hit_enemy(st, e2, e1, bs, rolls)
         ELSE st
    ELSE st

\* handle_projectile_enemy without any owner test: every projectile hits
handle_projectile_enemy_any_owner(st, e1, e2, bs, rolls) ==
    LET w == st.w IN
    IF e1 \in DOMAIN w.Projectile /\ e2 \in w.Enemy
    THEN projectile_hit_enemy(st, e1, e2, bs, rolls)
    ELSE IF e2 \in DOMAIN w.Projectile /\ e1 \in w.Enemy
    THEN projectile_hit_enemy(st, e2, e1, bs, rolls)
    ELSE st

\* lines 88-98: projectile hitting enemy (if / elif)
handle_projectile_enemy(st, e1, e2, bs, rolls) ==
    LET w == st.w IN
    IF e1 \in DOMAIN w.Projectile /\ e2 \in w.Enemy
    THEN IF ~entity_exists(w, w.Projectile[e1].owner) \/ w.Projectile[e1].owner \in w.Player
         THEN projectile_hit_enemy(st, e1, e2, bs, rolls)
         ELSE st
    ELSE IF e2 \in DOMAIN w.Projectile /\ e1 \in w.Enemy
    THEN IF ~entity_exists(w, w.Projectile[e2].owner) \/ w.Projectile[e2].owner \in w.Player
         THEN projectile_hit_enemy(st, e2, e1, bs, rolls)
         ELSE st
    ELSE st

\* lines 100-110: projectile hitting player (if / elif)
handle_projectile_player(st, e1, e2) ==
    LET w == st.w IN
    IF e1 \in DOMAIN w.Projectile /\ e2 \in w.Player
    THEN IF owner_is_enemy(w, w.Projectile[e1].owner)
         THEN projectile_hit_player(st, e1, e2)
         ELSE st
    ELSE IF e2 \in DOMAIN w.Projectile /\ e1 \in w.Player
    THEN IF owner_is_enemy(w, w.Projectile[e2].owner)
         THEN projectile_hit_player(st, e2, e1)
         ELSE st
    ELSE st

\* lines 112-116: enemy touching player (if / elif)
handle_enemy_player(st, e1, e2) ==
    LET w == st.w IN
    IF e1 \in w.Enemy /\ e2 \in w.Player THEN enemy_contact_player(st, e1, e2)
    ELSE IF e2 \in w.Enemy /\ e1 \in w.Player THEN enemy_contact_player(st, e2, e1)
    ELSE st

handle_collision(st0, e1, e2, bs, rolls) ==
    LET st == Logged(st0, "handle_collision", e1, e2)
        s1 == handle_projectile_enemy(st, e1, e2, bs, rolls)
        s2 == IF s1.raised # "none" THEN s1 ELSE handle_projectile_player(s1, e1, e2)
        s3 == IF s2.raised # "none" THEN s2 ELSE handle_enemy_player(s2, e1, e2)
    IN s3

collidables(w) == SetToSeq(DOMAIN w.Position \cap DOMAIN w.Collider)

\* lines 34-37: the inner loop, e2 over collidables[i + 1:]
RECURSIVE scan_row(_, _, _, _, _, _)
scan_row(st, c, i, j, bs, rolls) ==
    IF st.raised # "none" \/ j > Len(c) THEN st
    ELSE scan_row(IF check_collision(st.w, c[i], c[j])
                  THEN handle_collision(st, c[i], c[j], bs, rolls)
                  ELSE st,
                  c, i, j + 1, bs, rolls)

\* lines 33-37: the outer loop, e1 over collidables
RECURSIVE scan_pairs(_, _, _, _, _)
scan_pairs(st, c, i, bs, rolls) ==
    IF st.raised # "none" \/ i > Len(c) THEN st
    ELSE scan_pairs(scan_row(st, c, i, i + 1, bs, rolls), c, i + 1, bs, rolls)

\* entities/doors.py spawn_door: a door on the wall of its direction
spawn_door(w, direction, leads_to, locked) ==
    LET w1 == create_entity(w)
        e == w1.entity_count
        pos == CASE direction = "north" -> Pt(ROOM_WIDTH \div 2, 0)
                 [] direction = "south" -> Pt(ROOM_WIDTH \div 2, ROOM_HEIGHT - 10)
                 [] direction = "east" -> Pt(ROOM_WIDTH - 10, ROOM_HEIGHT \div 2)
                 [] direction = "west" -> Pt(0, ROOM_HEIGHT \div 2)
    IN [w1 EXCEPT !.Position = Put(@, e, pos),
                  !.Collider = Put(@, e, DOOR_COLLIDER_RADIUS),
                  !.Door = Put(@, e, [direction |-> direction, leads_to |-> leads_to,
                                      locked |-> locked])]

\* RoomManager.spawn_room_contents in a dungeon of two rooms: the start room
\* at (0, 0) with a door north to a combat room at (0, -1) that lists no
\* enemies.  m is the manager: its current_position and the cleared flag of
\* the combat room.
spawn_room_contents(w, m) ==
    LET should_lock == m.current_position = <<0, -1>> /\ ~m.cleared
    IN IF m.current_position = <<0, 0>>
       THEN spawn_door(w, "north", <<0, -1>>, should_lock)
       ELSE spawn_door(w, "south", <<0, 0>>, should_lock)

\* RoomManager.transition_to_room: every Door entity is deleted at once, the
\* manager moves and the contents of the new room are spawned
transition_to_room(w, m, new_position) ==
    LET gone == clear_dead_entities([w EXCEPT !.dead_entities = DOMAIN w.Door])
        w1 == [gone EXCEPT !.dead_entities = w.dead_entities \ DOMAIN w.Door]
        m1 == [m EXCEPT !.current_position = new_position]
    IN [w |-> spawn_room_contents(w1, m1), m |-> m1]

\* lines 233-261: the player is put just inside the opposite wall
reposition_player_after_transition(w, pl, direction) ==
    LET pos == CASE direction = "north" -> Pt(ROOM_WIDTH \div 2, ROOM_HEIGHT - 20)
                 [] direction = "south" -> Pt(ROOM_WIDTH \div 2, 10)
                 [] direction = "east" -> Pt(10, ROOM_HEIGHT \div 2)
                 [] direction = "west" -> Pt(ROOM_WIDTH - 20, ROOM_HEIGHT \div 2)
                 [] OTHER -> w.Position[pl]
    IN [w EXCEPT !.Position[pl] = pos]

\* door_loop that does not look at Door.locked
door_loop_ignoring_locked(st, rm) ==
    LET w == st.w
        ready == DOMAIN w.Position \cap DOMAIN w.Collider
        hits == {pd \in (w.Player \cap ready) \X (DOMAIN w.Door \cap ready) :
                    check_collision(w, pd[1], pd[2])}
        first == CHOOSE pd \in hits :
                    \A qe \in hits : pd[1] < qe[1] \/ (pd[1] = qe[1] /\ pd[2] <= qe[2])
        door == w.Door[first[2]]
        moved == transition_to_room(w, rm[1], door.leads_to)
    IN IF st.raised # "none" \/ rm = <<>> \/ hits = {}
       THEN [w |-> w, log |-> st.log, raised |-> st.raised, nrolls |-> st.nrolls,
             rm |-> rm]
       ELSE [w |-> reposition_player_after_transition(moved.w, first[1], door.direction),
             log |-> Append(st.log, [rule |-> "transition_to_room",
                                     a |-> first[1], b |-> first[2]]),
             raised |-> st.raised, nrolls |-> st.nrolls, rm |-> <<moved.m>>]

\* lines 39-57: with a room manager, the first player and unlocked door that
\* overlap trigger the transition and end both loops
door_loop(st, rm) ==
    LET w == st.w
        ready == DOMAIN w.Position \cap DOMAIN w.Collider
        hits == {pd \in (w.Player \cap ready) \X (DOMAIN w.Door \cap ready) :
                    ~w.Door[pd[2]].locked /\ check_collision(w, pd[1], pd[2])}
        first == CHOOSE pd \in hits :
                    \A qe \in hits : pd[1] < qe[1] \/ (pd[1] = qe[1] /\ pd[2] <= qe[2])
        door == w.Door[first[2]]
        moved == transition_to_room(w, rm[1], door.leads_to)
    IN IF st.raised # "none" \/ rm = <<>> \/ hits = {}
       THEN [w |-> w, log |-> st.log, raised |-> st.raised, nrolls |-> st.nrolls,
             rm |-> rm]
       ELSE [w |-> reposition_player_after_transition(moved.w, first[1], door.direction),
             log |-> Append(st.log, [rule |-> "transition_to_room",
                                     a |-> first[1], b |-> first[2]]),
             raised |-> st.raised, nrolls |-> st.nrolls, rm |-> <<moved.m>>]

\* CollisionSystem.process; rm is self.room_manager
collision_process(w, bs, rm, rolls) ==
    door_loop(scan_pairs([w |-> w, log |-> <<>>, raised |-> "none", nrolls |-> 0],
                         collidables(w), 1, bs, rolls),
              rm)

-----------------------------------------------------------------------------
(* InvincibilitySystem.process *)

\* invincibility_process that removes a component only below zero
invincibility_process_below_zero(w, dt) ==
    LET ticked == [e \in DOMAIN w.Invincible |-> w.Invincible[e] - dt]
        kept == {e \in DOMAIN ticked : ~(ticked[e] < 0)}
    IN [w EXCEPT !.Invincible = Restrict(ticked, kept)]

invincibility_process(w, dt) ==
    LET ticked == [e \in DOMAIN w.Invincible |-> w.Invincible[e] - dt]
        kept == {e \in DOMAIN ticked : ~(ticked[e] <= 0)}
    IN [w EXCEPT !.Invincible = Restrict(ticked, kept)]

-----------------------------------------------------------------------------
(* HomingSystem.process.  The Velocity of a projectile that can be steered is
   held as its components [dx, dy] in hundredths of a unit per second.  Angles
   are in half degrees on a grid of 15 degrees; math.cos and math.sin are
   tabulated in thousandths, math.sqrt rounds to the nearest hundredth. *)

HOMING_TURN_RATE == 60

\* math.cos of an angle of the grid, in thousandths
Cos(a) ==
    LET quarter == <<1000, 966, 866, 707, 500, 259, 0>>
        k == (a % 720) \div 30
    IN IF k <= 6 THEN quarter[k + 1]
       ELSE IF k <= 12 THEN -quarter[13 - k]
       ELSE IF k <= 18 THEN -quarter[k - 11]
       ELSE quarter[25 - k]

\* math.sin of an angle of the grid, in thousandths
Sin(a) == Cos(a - 180)

\* math.sqrt(n), rounded to the nearest whole number
Sqrt(n) ==
    LET RECURSIVE floor_root(_, _)
        floor_root(lo, hi) ==
            IF lo >= hi THEN lo
            ELSE LET mid == (lo + hi + 1) \div 2
                 IN IF mid * mid <= n THEN floor_root(mid, hi)
                    ELSE floor_root(lo, mid - 1)
        r == floor_root(0, 32768)
    IN IF n - r * r > r THEN r + 1 ELSE r

\* math.atan2(dy, dx): the angle of the grid, in (-180, 180] degrees, whose
\* direction is nearest to (dx, dy); atan2(0, 0) is 0
Atan2(dy, dx) ==
    IF dx = 0 /\ dy = 0 THEN 0
    ELSE LET grid == {30 * k - 330 : k \in 0..23}
             along(a) == dx * Cos(a) + dy * Sin(a)
         IN CHOOSE a \in grid : \A b \in grid : along(a) >= along(b)

\* lines 23-25: some player holds an item with the "homing" effect
player_has_homing(w) ==
    \E e \in w.Player \cap DOMAIN w.CollectedItems : "homing" \in w.CollectedItems[e]

\* steerable without the test that the owner is the player
steerable_any_owner(w, p) ==
    entity_exists(w, w.Projectile[p].owner)

\* lines 33-36: only projectiles whose owner exists and is the player
steerable(w, p) ==
    /\ entity_exists(w, w.Projectile[p].owner)
    /\ w.Projectile[p].owner \in w.Player

\* lines 39-49: the nearest entity with Enemy and Position, the first one
\* found on equal distances; 0 when there is none
nearest_enemy(w, p) ==
    LET enemies == w.Enemy \cap DOMAIN w.Position
        d(e) == DistSq(w.Position[p], w.Position[e])
    IN IF enemies = {} THEN 0
       ELSE CHOOSE e \in enemies :
                \A f \in enemies : d(e) < d(f) \/ (d(e) = d(f) /\ e <= f)

\* current_speed taken from the x component alone
current_speed_of_dx(vel) == Sqrt(vel.dx * vel.dx)

\* line 60
current_speed(vel) == Sqrt(vel.dx * vel.dx + vel.dy * vel.dy)

\* turn_amount without the clamp: the whole difference is turned at once
turn_amount_unclamped(max_turn, target_angle, current_angle) ==
    LET diff == target_angle - current_angle
        d1 == IF diff > 360 THEN diff - 720 ELSE diff
        d2 == IF d1 < -360 THEN d1 + 720 ELSE d1
    IN d2

\* lines 66-74: the difference normalised to [-pi, pi], clamped to max_turn
turn_amount(max_turn, target_angle, current_angle) ==
    LET diff == target_angle - current_angle
        d1 == IF diff > 360 THEN diff - 720 ELSE diff
        d2 == IF d1 < -360 THEN d1 + 720 ELSE d1
        lower == IF max_turn < d2 THEN max_turn ELSE d2
    IN IF -max_turn > lower THEN -max_turn ELSE lower

\* lines 54-79: the new Velocity of the projectile p steered toward target
homing_velocity(w, p, target, dt) ==
    LET vel == w.Velocity[p]
        target_angle == Atan2(w.Position[target].y - w.Position[p].y,
                              w.Position[target].x - w.Position[p].x)
        current_angle == Atan2(vel.dy, vel.dx)
        speed == current_speed(vel)
        new_angle == current_angle
                        + turn_amount(HOMING_TURN_RATE * dt, target_angle, current_angle)
        times(c) == IF c >= 0 THEN (c * speed + 500) \div 1000
                    ELSE -((-c * speed + 500) \div 1000)
    IN [dx |-> times(Cos(new_angle)), dy |-> times(Sin(new_angle))]

homing_process(w, dt) ==
    IF ~player_has_homing(w) THEN w
    ELSE LET steered == {p \in DOMAIN w.Projectile \cap DOMAIN w.Position
                                  \cap DOMAIN w.Velocity :
                            steerable(w, p) /\ nearest_enemy(w, p) # 0}
         IN [w EXCEPT !.Velocity =
                [e \in DOMAIN w.Velocity |->
                    IF e \in steered
                    THEN homing_velocity(w, e, nearest_enemy(w, e), dt)
                    ELSE w.Velocity[e]]]

-----------------------------------------------------------------------------
(* Boss data and pattern generators *)

BossTypes == {"boss_a", "boss_b", "boss_c"}

BOSS_DATA ==
    [boss_a |-> [hp |-> 50, patterns |-> <<"spiral", "wave">>,
                 phase_2_patterns |-> <<"double_spiral", "fast_wave">>,
                 teleport_cooldowns |-> [phase_1 |-> 28, phase_2 |-> 16]],
     boss_b |-> [hp |-> 75, patterns |-> <<"wave", "pulse">>,
                 phase_2_patterns |-> <<"fast_wave", "burst_pulse">>,
                 teleport_cooldowns |-> [phase_1 |-> 24, phase_2 |-> 12]],
     boss_c |-> [hp |-> 100, patterns |-> <<"pulse", "spiral">>,
                 phase_2_patterns |-> <<"burst_pulse", "double_spiral">>,
                 teleport_cooldowns |-> [phase_1 |-> 24, phase_2 |-> 12]]]

\* angles in half degrees: 360.0 / count is 720 \div count
generate_spiral_pattern(pos, rotation, count, speed) ==
    [i \in 1..count |->
        [x |-> pos.x, y |-> pos.y,
         v |-> Polar(speed, ((i - 1) * (720 \div count) + rotation) % 720)]]

generate_wave_pattern(pos, sweep_angle, count, arc_width, speed) ==
    LET start_angle == sweep_angle - (arc_width \div 2)
        angle_step == IF count > 1 THEN arc_width \div (count - 1) ELSE 0
    IN [i \in 1..count |->
        [x |-> pos.x, y |-> pos.y,
         v |-> Polar(speed, start_angle + (i - 1) * angle_step)]]

\* generate_pulse_pattern whose ring is divided into count + 1 steps
generate_pulse_pattern_open(pos, count, speed) ==
    [i \in 1..count |->
        [x |-> pos.x, y |-> pos.y,
         v |-> Polar(speed, (i - 1) * (720 \div (count + 1)))]]

generate_pulse_pattern(pos, count, speed) ==
    [i \in 1..count |->
        [x |-> pos.x, y |-> pos.y,
         v |-> Polar(speed, (i - 1) * (720 \div count))]]

PatternNames ==
    {"spiral", "wave", "pulse", "double_spiral", "fast_wave", "burst_pulse"}

\* the function bound to pattern_name, applied to the boss position; callers
\* test pattern_name \in PatternNames first (patterns.get returns None)
get_pattern_for_boss(boss_type, phase, pattern_name, pos) ==
    CASE pattern_name = "spiral" -> generate_spiral_pattern(pos, 0, 8, 40)
      [] pattern_name = "wave" -> generate_wave_pattern(pos, 0, 5, 120, 50)
      [] pattern_name = "pulse" -> generate_pulse_pattern(pos, 12, 35)
      [] pattern_name = "double_spiral" -> generate_spiral_pattern(pos, 0, 16, 40)
      [] pattern_name = "fast_wave" -> generate_wave_pattern(pos, 0, 7, 180, 60)
      [] pattern_name = "burst_pulse" -> generate_pulse_pattern(pos, 16, 40)

create_boss(w, boss_type, pos) ==
    LET w1 == create_entity(w)
        e == w1.entity_count
        data == BOSS_DATA[boss_type]
    IN [w1 EXCEPT !.Position = Put(@, e, pos),
                  !.Velocity = Put(@, e, Polar(0, 0)),
                  !.Health = Put(@, e, [current |-> data.hp, max |-> data.hp]),
                  !.Collider = Put(@, e, ENEMY_HITBOX),
                  !.Boss = Put(@, e, [boss_type |-> boss_type, current_phase |-> 1,
                                      phase_2_threshold |-> [num |-> 1, den |-> 2],
                                      has_transitioned |-> FALSE]),
                  !.BossAI = Put(@, e, [pattern_name |-> data.patterns[1],
                                        pattern_timer |-> 0,
                                        pattern_cooldown |-> BOSS_PATTERN_COOLDOWN,
                                        teleport_timer |-> 0,
                                        teleport_cooldown |-> data.teleport_cooldowns.phase_1])]

-----------------------------------------------------------------------------
(* BossAISystem.  A tick threads st = [w, log, raised, nrolls]. *)

create_enemy_projectile(w, x, y, v) ==
    create_projectile(w, Pt(x, y), v, BOSS_PROJECTILE_DAMAGE, BOSS_PROJECTILE_OWNER)

RECURSIVE spawn_projectiles(_, _, _)
spawn_projectiles(w, projectiles, k) ==
    IF k > Len(projectiles) THEN w
    ELSE spawn_projectiles(
             create_enemy_projectile(w, projectiles[k].x, projectiles[k].y, projectiles[k].v),
             projectiles, k + 1)

\* check_phase_transition with the has_transitioned guard dropped
check_phase_transition_unguarded(st, boss_ent) ==
    LET w == st.w
        boss == w.Boss[boss_ent]
        health == w.Health[boss_ent]
        thr == boss.phase_2_threshold
        data == BOSS_DATA[boss.boss_type]
    IN IF health.max = 0 THEN Raise(st, "ZeroDivisionError")
       ELSE IF health.current * thr.den <= thr.num * health.max
       THEN LET w1 == [w EXCEPT
                          !.Boss[boss_ent].current_phase = 2,
                          !.Boss[boss_ent].has_transitioned = TRUE,
                          !.BossAI[boss_ent].pattern_name =
                              IF Len(data.phase_2_patterns) > 0
                              THEN data.phase_2_patterns[1] ELSE @,
                          !.BossAI[boss_ent].teleport_cooldown =
                              data.teleport_cooldowns.phase_2]
            IN Raise(Logged([st EXCEPT !.w = w1], "phase_transition", boss_ent, boss_ent),
                     "AttributeError")
       ELSE st

\* check_phase_transition comparing with < instead of <=
check_phase_transition_strict(st, boss_ent) ==
    LET w == st.w
        boss == w.Boss[boss_ent]
        health == w.Health[boss_ent]
        thr == boss.phase_2_threshold
        data == BOSS_DATA[boss.boss_type]
    IN IF boss.has_transitioned THEN st
       ELSE IF health.max = 0 THEN Raise(st, "ZeroDivisionError")
       ELSE IF health.current * thr.den < thr.num * health.max
       THEN LET w1 == [w EXCEPT
                          !.Boss[boss_ent].current_phase = 2,
                          !.Boss[boss_ent].has_transitioned = TRUE,
                          !.BossAI[boss_ent].pattern_name =
                              IF Len(data.phase_2_patterns) > 0
                              THEN data.phase_2_patterns[1] ELSE @,
                          !.BossAI[boss_ent].teleport_cooldown =
                              data.teleport_cooldowns.phase_2]
            IN Raise(Logged([st EXCEPT !.w = w1], "phase_transition", boss_ent, boss_ent),
                     "AttributeError")
       ELSE st

check_phase_transition(st, boss_ent) ==
    LET w == st.w
        boss == w.Boss[boss_ent]
        health == w.Health[boss_ent]
        thr == boss.phase_2_threshold
        data == BOSS_DATA[boss.boss_type]
    IN IF boss.has_transitioned THEN st
       ELSE IF health.max = 0 THEN Raise(st, "ZeroDivisionError")
       ELSE IF health.current * thr.den <= thr.num * health.max
       THEN LET w1 == [w EXCEPT
                          !.Boss[boss_ent].current_phase = 2,
                          !.Boss[boss_ent].has_transitioned = TRUE,
                          !.BossAI[boss_ent].pattern_name =
                              IF Len(data.phase_2_patterns) > 0
                              THEN data.phase_2_patterns[1] ELSE @,
                          !.BossAI[boss_ent].teleport_cooldown =
                              data.teleport_cooldowns.phase_2]
            \* lines 78-80 read Config.BOSS_PHASE_TRANSITION_INVULN, which
            \* src/config.py does not define: AttributeError before
            \* esper.add_component is called
            IN Raise(Logged([st EXCEPT !.w = w1], "phase_transition", boss_ent, boss_ent),
                     "AttributeError")
       ELSE st

execute_pattern(st, boss_ent) ==
    LET w == st.w
        boss == w.Boss[boss_ent]
        boss_ai == w.BossAI[boss_ent]
    IN IF boss_ai.pattern_name \notin PatternNames THEN st
       ELSE [Logged(st, "execute_pattern", boss_ent, boss_ent) EXCEPT
                !.w = spawn_projectiles(w,
                          get_pattern_for_boss(boss.boss_type, boss.current_phase,
                                               boss_ai.pattern_name, w.Position[boss_ent]),
                          1)]

update_pattern(st, boss_ent, dt) ==
    LET st1 == [st EXCEPT !.w.BossAI[boss_ent].pattern_timer = @ - dt]
    IN IF st1.w.BossAI[boss_ent].pattern_timer <= 0
       THEN LET st2 == execute_pattern(st1, boss_ent)
            IN [st2 EXCEPT !.w.BossAI[boss_ent].pattern_timer =
                               st2.w.BossAI[boss_ent].pattern_cooldown]
       ELSE st1

\* line 172 reads Config.BOSS_TELEPORT_POSITIONS, which src/config.py does not
\* define: AttributeError before any position is chosen
teleport_boss(st, boss_ent) ==
    Raise(Logged(st, "teleport_boss", boss_ent, boss_ent), "AttributeError")

update_teleport(st, boss_ent, dt) ==
    LET st1 == [st EXCEPT !.w.BossAI[boss_ent].teleport_timer = @ - dt]
    IN IF st1.w.BossAI[boss_ent].teleport_timer <= 0
       THEN LET st2 == teleport_boss(st1, boss_ent)
            IN IF st2.raised # "none" THEN st2
               ELSE [st2 EXCEPT !.w.BossAI[boss_ent].teleport_timer =
                                    st2.w.BossAI[boss_ent].teleport_cooldown]
       ELSE st1

RECURSIVE boss_loop(_, _, _)
boss_loop(st, bosses, dt) ==
    IF st.raised # "none" \/ bosses = <<>> THEN st
    ELSE LET b == Head(bosses)
             s1 == check_phase_transition(st, b)
             s2 == IF s1.raised # "none" THEN s1 ELSE update_pattern(s1, b, dt)
             s3 == IF s2.raised # "none" THEN s2 ELSE update_teleport(s2, b, dt)
         IN boss_loop(s3, Tail(bosses), dt)

boss_ai_process(w, dt) ==
    boss_loop([w |-> w, log |-> <<>>, raised |-> "none", nrolls |-> 0],
              SetToSeq(DOMAIN w.Boss \cap DOMAIN w.BossAI
                       \cap DOMAIN w.Position \cap DOMAIN w.Health),
              dt)

-----------------------------------------------------------------------------
(* GameEngine: processor registration and the frame driver *)

\* esper.add_processor: append, then sort by priority, highest first (stable)
add_processor(procs, name, priority) ==
    LET k == Cardinality({i \in 1..Len(procs) : procs[i].priority >= priority})
    IN SubSeq(procs, 1, k) \o <<[name |-> name, priority |-> priority]>>
       \o SubSeq(procs, k + 1, Len(procs))

\* GameEngine.__init__, the add_processor calls in program order
Registrations ==
    << <<"InputSystem", 0>>, <<"AISystem", 10>>, <<"EnemyShootingSystem", 20>>,
       <<"ShootingSystem", 30>>, <<"BombSystem", 47>>, <<"MovementSystem", 40>>,
       <<"HomingSystem", 45>>, <<"CollisionSystem", 50>>,
       <<"InvincibilitySystem", 60>>, <<"ItemPickupSystem", 65>>,
       <<"RenderSystem", 70>> >>

RECURSIVE register_all(_, _)
register_all(procs, k) ==
    IF k > Len(Registrations) THEN procs
    ELSE register_all(add_processor(procs, Registrations[k][1], Registrations[k][2]), k + 1)

EngineProcessors == register_all(<<>>, 1)

\* one processor's process() inside esper.process(); the processors outside
\* the combat core leave the components of this model as they are when no
\* input is pending and every entity is at rest
run_processor(st, name, dt, bs, rolls) ==
    CASE name = "CollisionSystem" ->
            LET r == collision_process(st.w, bs, <<>>, rolls)
            IN [st EXCEPT !.w = r.w, !.log = @ \o r.log, !.raised = r.raised]
      [] name = "InvincibilitySystem" ->
            [st EXCEPT !.w = invincibility_process(st.w, dt)]
      [] name = "BossAISystem" ->
            LET r == boss_ai_process(st.w, dt)
            IN [st EXCEPT !.w = r.w, !.log = @ \o r.log, !.raised = r.raised]
      [] OTHER -> st

\* esper.process(): every processor in list order; an exception ends the frame
RECURSIVE run_processors(_, _, _, _, _, _)
run_processors(st, procs, k, dt, bs, rolls) ==
    IF st.raised # "none" \/ k > Len(procs) THEN st
    ELSE run_processors(
             [run_processor(st, procs[k].name, dt, bs, rolls) EXCEPT
                 !.trace = Append(@, procs[k].name)],
             procs, k + 1, dt, bs, rolls)

engine_update(w, procs, dt, bs, rolls) ==
    run_processors([w |-> clear_dead_entities(w), log |-> <<>>, raised |-> "none",
                    nrolls |-> 0, trace |-> <<>>],
                   procs, 1, dt, bs, rolls)

-----------------------------------------------------------------------------
(* Scenes *)

P0 == Pt(0, 0)
P1 == Pt(3, 4)
P2 == Pt(20, 0)
P3 == Pt(30, 0)

\* CollectedItems of the player: absent, or the effects of the items held
EffectSets == {{}, {"piercing"}, {"explosive"}, {"piercing", "explosive"}}

DtValues == {1, 2}

\* player 1 at P0, enemy 2 at P1, enemy 3, projectile 4 at P0, optional
\* projectile 5 at P0
Scene(php, pinv, eff, ahp, bpos, o1, d1, p2) ==
    LET w1 == create_player(EmptyWorld, P0)
        w2 == create_enemy(w1, P1)
        w3 == create_enemy(w2, bpos)
        w4 == create_projectile(w3, P0, Polar(80, 0), d1, o1)
        w5 == IF p2 = 0 THEN w4
              ELSE create_projectile(w4, P0, Polar(50, 0), p2, p2)
    IN [w5 EXCEPT !.Health[1].current = php,
                  !.Health[2].current = ahp,
                  !.Invincible = IF pinv THEN Put(@, 1, INVINCIBILITY_DURATION) ELSE @,
                  !.CollectedItems = IF eff = {} THEN @ ELSE Put(@, 1, eff)]

Scenes ==
    {Scene(php, pinv, eff, ahp, bpos, o1, d1, p2) :
        php \in {PLAYER_MAX_HP}, pinv \in {FALSE}, eff \in EffectSets,
        ahp \in {1, CHASER_HP}, bpos \in {P1, P2},
        o1 \in {1, -1}, d1 \in {1, 2}, p2 \in {0, 1, 2}}

NoOp == [name |-> "init", dt |-> 0]

InitCommon ==
    /\ op = NoOp
    /\ prev = world
    /\ log = <<>>
    /\ raised = "none"
    /\ ticks = 0
    /\ blasts = 0
    /\ transitions = 0
    /\ processors = EngineProcessors
    /\ trace = <<>>
    /\ room_manager = <<>>
    /\ current_state = "playing"
    /\ victory = FALSE

Init ==
    /\ world \in Scenes
    /\ bomb_system \in BOOLEAN
    /\ (bomb_system = FALSE =>
            world.CollectedItems = (1 :> {"explosive"}))
    /\ InitCommon

LootCount(w) == Cardinality(w.Item \cup w.Coin)

NoLoot == [item |-> FALSE, coins |-> 0]

\* the random draws of one pass: one outcome per loot roll, the rolls after
\* the MaxLootRolls-th repeating the last one.  n is the number of rolls the
\* pass makes, which does not depend on their outcomes.
RollChoices(n) ==
    {rolls \in [1..MaxLootRolls -> LootOutcomes] :
        \A k \in 1..MaxLootRolls : k > n => rolls[k] = NoLoot}

AllNoLoot == [k \in 1..MaxLootRolls |-> NoLoot]

CountTransitions(lg) ==
    Cardinality({i \in 1..Len(lg) : lg[i].rule = "phase_transition"})

Ran(name, dt, r) ==
    /\ world' = r.w
    /\ prev' = world
    /\ op' = [name |-> name, dt |-> dt]
    /\ log' = r.log
    /\ raised' = r.raised
    /\ ticks' = ticks + 1
    /\ transitions' = transitions + CountTransitions(r.log)

\* CollisionSystem.process()
CollisionProcess ==
    /\ ticks < MaxSteps
    /\ LootCount(world) <= MaxLoot
    /\ \E rolls \in RollChoices(collision_process(world, bomb_system, room_manager,
                                                   AllNoLoot).nrolls) :
          LET r == collision_process(world, bomb_system, room_manager, rolls)
          IN Ran("collision", 0, r) /\ room_manager' = r.rm
    /\ UNCHANGED <<current_state, victory, bomb_system, blasts, processors, trace>>

\* InvincibilitySystem.process() with self.dt = dt
InvincibilityProcess ==
    /\ ticks < MaxSteps
    /\ DOMAIN world.Invincible # {}
    /\ \E dt \in DtValues :
          Ran("invincibility", dt,
              [w |-> invincibility_process(world, dt), log |-> <<>>, raised |-> "none"])
    /\ UNCHANGED <<room_manager, current_state, victory, bomb_system, blasts, processors, trace>>

\* esper.clear_dead_entities(), run at the start of esper.process()
ClearDeadEntities ==
    /\ world.dead_entities # {}
    /\ world' = clear_dead_entities(world)
    /\ prev' = world
    /\ op' = [name |-> "clear_dead_entities", dt |-> 0]
    /\ log' = <<>>
    /\ raised' = "none"
    /\ UNCHANGED <<room_manager, current_state, victory, bomb_system, ticks, blasts, transitions, processors, trace>>

Next == CollisionProcess \/ InvincibilityProcess \/ ClearDeadEntities

Spec == Init /\ [][Next]_vars

-----------------------------------------------------------------------------
(* Boss room: boss 1 at P0, optional player 2 next to it, optional enemy 3 *)

PNear == Pt(3, 0)
PSide == Pt(-4, 0)
PBlast == Pt(0, 20)

BossDtValues == {1, 13}

BossScene(boss_type, wounded, with_player, with_enemy) ==
    LET w1 == create_boss(EmptyWorld, boss_type, P0)
        w2 == IF with_player THEN create_player(w1, PNear) ELSE w1
        w3 == IF with_enemy THEN create_enemy(w2, PSide) ELSE w2
        hp == BOSS_DATA[boss_type].hp
    IN [w3 EXCEPT !.Health[1].current = IF wounded THEN (hp \div 2) + 1 ELSE hp]

BossScenes ==
    {BossScene(t, wd, wp, we) :
        t \in BossTypes, wd \in BOOLEAN, wp \in BOOLEAN, we \in BOOLEAN}

InitBoss ==
    /\ world \in BossScenes
    /\ bomb_system = TRUE
    /\ InitCommon

\* BossAISystem.process() with self.dt = dt
BossAIProcess ==
    /\ ticks < MaxSteps
    /\ \E dt \in BossDtValues : Ran("boss_ai", dt, boss_ai_process(world, dt))
    /\ UNCHANGED <<room_manager, current_state, victory, bomb_system, blasts, processors, trace>>

\* BombSystem.explode_bomb: the blast of a bomb lying at PBlast
BombBlast ==
    /\ blasts < MaxBlasts
    /\ world' = damage_entities_in_radius(world, PBlast, BOMB_BLAST_RADIUS)
    /\ prev' = world
    /\ op' = [name |-> "blast", dt |-> 0]
    /\ log' = <<>>
    /\ raised' = "none"
    /\ blasts' = blasts + 1
    /\ UNCHANGED <<room_manager, current_state, victory, bomb_system, ticks, transitions, processors, trace>>

NextBoss ==
    BossAIProcess \/ BombBlast \/ CollisionProcess \/ InvincibilityProcess
        \/ ClearDeadEntities

SpecBoss == InitBoss /\ [][NextBoss]_vars

-----------------------------------------------------------------------------
(* Engine frames: GameEngine.update(dt) on a room with a boss *)

InitEngine ==
    /\ world \in Scenes \cup BossScenes
    /\ bomb_system = TRUE
    /\ InitCommon

\* GameEngine.update(dt): esper.process() over the registered processors
EngineUpdate ==
    /\ ticks < MaxSteps
    /\ LootCount(world) <= MaxLoot
    /\ \E dt \in DtValues :
       \E rolls \in RollChoices(
              engine_update(world, processors, dt, bomb_system, AllNoLoot).nrolls) :
          LET r == engine_update(world, processors, dt, bomb_system, rolls)
          IN Ran("update", dt, r) /\ trace' = r.trace
    /\ UNCHANGED <<room_manager, current_state, victory, bomb_system, blasts, processors>>

NextEngine == EngineUpdate

SpecEngine == InitEngine /\ [][NextEngine]_vars

-----------------------------------------------------------------------------
(* Vocabulary of the properties *)

LogHas(rule, a, b) ==
    \E i \in 1..Len(log) : log[i] = [rule |-> rule, a |-> a, b |-> b]

LogCount(rule, a, b) ==
    Cardinality({i \in 1..Len(log) : log[i] = [rule |-> rule, a |-> a, b |-> b]})

Effects(w, e) == IF e \in DOMAIN w.CollectedItems THEN w.CollectedItems[e] ELSE {}

\* entities of w that a collision pass over w pairs up
Collidable(w) == DOMAIN w.Position \cap DOMAIN w.Collider

Overlap(w, a, b) ==
    /\ a \in Collidable(w) /\ b \in Collidable(w) /\ a # b
    /\ check_collision(w, a, b)

PlayerProjectiles(w) ==
    {p \in DOMAIN w.Projectile : owner_is_player(w, w.Projectile[p].owner)}

WithinBlast(w, center, e) ==
    DistSq(w.Position[center], w.Position[e]) <= BOMB_BLAST_RADIUS * BOMB_BLAST_RADIUS

-----------------------------------------------------------------------------
(* C1: explosive overrides piercing.  After a collision pass (with the bomb
   system attached) in which a projectile of a player holding both
   "piercing" and "explosive" hit an enemy, that projectile no longer exists,
   and every other live enemy within the bomb blast radius of the projectile
   that does not touch it has lost health. *)
C1_ExplosiveOverridesPiercing ==
    (op.name = "collision" /\ bomb_system) =>
        \A p \in PlayerProjectiles(prev) : \A e \in prev.Enemy :
            ( /\ {"piercing", "explosive"} \subseteq Effects(prev, prev.Projectile[p].owner)
              /\ LogHas("projectile_hit_enemy", p, e) )
            => /\ ~entity_exists(world, p)
               /\ \A e2 \in prev.Enemy \ {e} :
                     ( /\ e2 \in DOMAIN prev.Health
                       /\ prev.Health[e2].current > 0
                       /\ WithinBlast(prev, p, e2)
                       /\ ~Overlap(prev, p, e2) )
                     => world.Health[e2].current < prev.Health[e2].current

(* C2: death is monotonic.  After every collision pass, an enemy whose
   health is <= 0 after damage applied in that pass no longer exists,
   whichever effects the projectile's owner holds. *)
C2_DeadEnemiesAreRemoved ==
    op.name = "collision" =>
        \A e \in prev.Enemy \cap DOMAIN prev.Health :
            ( /\ world.Health[e].current < prev.Health[e].current
              /\ world.Health[e].current <= 0 )
            => ~entity_exists(world, e)

(* C3: invincibility blocks all damage.  A collision pass that starts with
   the player holding Invincible leaves the player's Health.current as it
   was, whatever touched the player and whatever the projectile damage; an
   enemy projectile that hit the invincible player no longer exists. *)
C3_InvincibilityBlocksDamage ==
    op.name = "collision" =>
        \A pl \in prev.Player \cap DOMAIN prev.Invincible :
            /\ world.Health[pl].current = prev.Health[pl].current
            /\ pl \in DOMAIN world.Invincible
            /\ \A q \in DOMAIN prev.Projectile :
                  LogHas("projectile_hit_player", q, pl) => ~entity_exists(world, q)

\* reached: an invincible player was touched by an enemy and hit by an enemy
\* projectile whose damage exceeds the player's remaining health
C3_Witness ==
    /\ op.name = "collision"
    /\ \E pl \in prev.Player \cap DOMAIN prev.Invincible :
          /\ \E e \in prev.Enemy : LogHas("enemy_contact_player", e, pl)
          /\ \E q \in DOMAIN prev.Projectile :
                /\ LogHas("projectile_hit_player", q, pl)
                /\ prev.Projectile[q].damage > prev.Health[pl].current

(* C4: piercing invariant.  In every collision pass, a live projectile of a
   player who holds "piercing" and not "explosive" still exists after the
   pass, and every enemy it overlaps is hit by it and loses at least the
   projectile's damage - in the first pass and in every later one. *)
C4_PiercingSurvivesAndHitsAll ==
    op.name = "collision" =>
        \A p \in PlayerProjectiles(prev) :
            ( /\ entity_exists(prev, p)
              /\ "piercing" \in Effects(prev, prev.Projectile[p].owner)
              /\ "explosive" \notin Effects(prev, prev.Projectile[p].owner) )
            => /\ entity_exists(world, p)
               /\ \A e \in prev.Enemy :
                     Overlap(prev, p, e)
                     => /\ LogCount("projectile_hit_enemy", p, e) = 1
                        /\ world.Health[e].current
                              <= prev.Health[e].current - prev.Projectile[p].damage

\* reached: in a second pass a piercing projectile that already damaged
\* enemy 3 hits two enemies and is still there
C4_Witness ==
    /\ op.name = "collision"
    /\ ticks = 2
    /\ \E p \in PlayerProjectiles(prev) :
          /\ "piercing" \in Effects(prev, prev.Projectile[p].owner)
          /\ "explosive" \notin Effects(prev, prev.Projectile[p].owner)
          /\ LogHas("projectile_hit_enemy", p, 2)
          /\ LogHas("projectile_hit_enemy", p, 3)
          /\ prev.Health[3].current < CHASER_HP
          /\ prev.Health[3].current > 0
          /\ entity_exists(world, p)

-----------------------------------------------------------------------------
(* Boss properties, checked under SpecBoss *)

Bosses(w) == DOMAIN w.Boss \cap DOMAIN w.BossAI

AtOrBelowThreshold(w, b) ==
    w.Health[b].current * w.Boss[b].phase_2_threshold.den
        <= w.Boss[b].phase_2_threshold.num * w.Health[b].max

HasInvincible(w, e) == e \in DOMAIN w.Invincible

(* C5: the phase transition is one-way and idempotent.  Over every step, a
   boss in phase 2 stays in phase 2 and has_transitioned stays true; the
   transition body runs at most once, and a Boss-AI tick on a boss that has
   already transitioned changes neither pattern_name nor teleport_cooldown
   nor the boss's Invincible. *)
C5_PhaseTransitionOneWay ==
    /\ transitions <= 1
    /\ \A b \in Bosses(prev) \cap Bosses(world) :
          /\ prev.Boss[b].current_phase = 2 => world.Boss[b].current_phase = 2
          /\ prev.Boss[b].has_transitioned =>
                /\ world.Boss[b].has_transitioned
                /\ world.Boss[b].current_phase = 2
                /\ world.BossAI[b].pattern_name = prev.BossAI[b].pattern_name
                /\ world.BossAI[b].teleport_cooldown = prev.BossAI[b].teleport_cooldown
                /\ HasInvincible(world, b) = HasInvincible(prev, b)

\* reached: a Boss-AI tick ran on a boss that had already transitioned and
\* whose health was still at or below the threshold
C5_Witness ==
    /\ op.name = "boss_ai"
    /\ \E b \in Bosses(prev) :
          /\ prev.Boss[b].has_transitioned
          /\ AtOrBelowThreshold(prev, b)
          /\ world.Boss[b].current_phase = 2

(* C6: in a Boss-AI tick the boss goes from phase 1 to phase 2 exactly when
   it has not transitioned yet and health.current / health.max is at or
   below phase_2_threshold at that tick - at the threshold itself and
   below it, never above it. *)
C6_TransitionIffAtOrBelowThreshold ==
    op.name = "boss_ai" =>
        \A b \in Bosses(prev) :
            ( /\ ~prev.Boss[b].has_transitioned
              /\ AtOrBelowThreshold(prev, b) )
            <=> ( /\ prev.Boss[b].current_phase = 1
                  /\ world.Boss[b].current_phase = 2
                  /\ ~prev.Boss[b].has_transitioned
                  /\ world.Boss[b].has_transitioned )

\* reached: a tick fired the transition with current = max/2 exactly
C6_Witness ==
    /\ op.name = "boss_ai"
    /\ \E b \in Bosses(prev) :
          /\ prev.Health[b].current * 2 = prev.Health[b].max
          /\ prev.Boss[b].current_phase = 1
          /\ world.Boss[b].current_phase = 2

(* C7: the phase transition is atomic.  After the tick in which a boss goes
   from phase 1 to phase 2, has_transitioned is true, pattern_name is the
   first phase-2 pattern of its type, teleport_cooldown is the phase-2 value
   of its type, and the boss holds an Invincible component. *)
C7_TransitionIsAtomic ==
    op.name = "boss_ai" =>
        \A b \in Bosses(prev) :
            (prev.Boss[b].current_phase = 1 /\ world.Boss[b].current_phase = 2)
            => /\ world.Boss[b].has_transitioned
               /\ world.BossAI[b].pattern_name
                     = BOSS_DATA[world.Boss[b].boss_type].phase_2_patterns[1]
               /\ world.BossAI[b].teleport_cooldown
                     = BOSS_DATA[world.Boss[b].boss_type].teleport_cooldowns.phase_2
               /\ HasInvincible(world, b)

(* C10: projectiles spawned by a boss pattern are enemy-owned.  In a
   collision pass, a boss-spawned projectile that overlaps a player without
   Invincible hits the player under the Projectile->Player rule, and no
   boss-spawned projectile is applied to an enemy. *)
BossProjectiles(w) ==
    {q \in DOMAIN w.Projectile : w.Projectile[q].owner = BOSS_PROJECTILE_OWNER}

C10_BossProjectilesAreEnemyOwned ==
    op.name = "collision" =>
        \A q \in BossProjectiles(prev) :
            /\ \A e \in prev.Enemy : ~LogHas("projectile_hit_enemy", q, e)
            /\ \A pl \in prev.Player :
                  (Overlap(prev, q, pl) /\ ~HasInvincible(prev, pl) /\ raised = "none")
                  => LogHas("projectile_hit_player", q, pl)

-----------------------------------------------------------------------------
(* Frame and pass structure *)

CombatStages ==
    {"BossAISystem", "HomingSystem", "CollisionSystem", "InvincibilitySystem"}

IsCombatStage(name) == name \in CombatStages

(* C8: one engine update runs the combat stages in the order Boss AI,
   Homing, Collision & Damage, Invincibility tick, each exactly once. *)
C8_FrameStageOrder ==
    op.name = "update" =>
        SelectSeq(trace, IsCombatStage)
            = <<"BossAISystem", "HomingSystem", "CollisionSystem", "InvincibilitySystem">>

RuleNames == {"projectile_hit_enemy", "projectile_hit_player", "enemy_contact_player"}

RulesApplied(a, b) ==
    {i \in 1..Len(log) :
        /\ log[i].rule \in RuleNames
        /\ {log[i].a, log[i].b} = {a, b}}

(* C9: in one collision pass every overlapping unordered pair of entities
   with Position and Collider is handled exactly once and at most one
   interaction rule is applied to it; a pair that does not overlap is not
   handled. *)
C9_EveryPairOnceOneRule ==
    op.name = "collision" =>
        \A a \in Collidable(prev) : \A b \in Collidable(prev) :
            a < b =>
                /\ LogCount("handle_collision", a, b) + LogCount("handle_collision", b, a)
                      = (IF check_collision(prev, a, b) THEN 1 ELSE 0)
                /\ Cardinality(RulesApplied(a, b)) <= 1

-----------------------------------------------------------------------------
(* Rule outcomes of a collision pass *)

\* the projectile's owner is gone or is the player: it may hit enemies
HitsEnemies(w, p) ==
    \/ ~entity_exists(w, w.Projectile[p].owner)
    \/ w.Projectile[p].owner \in w.Player

Plain(w, p) ==
    /\ ~owner_has_effect(w, w.Projectile[p].owner, "piercing")
    /\ ~owner_has_effect(w, w.Projectile[p].owner, "explosive")

\* total damage of the projectile hits that the entries of lg apply to e
RECURSIVE DamageDealt(_, _, _)
DamageDealt(w, lg, e) ==
    IF lg = <<>> THEN 0
    ELSE (IF Head(lg).rule = "projectile_hit_enemy" /\ Head(lg).b = e
          THEN w.Projectile[Head(lg).a].damage ELSE 0)
         + DamageDealt(w, Tail(lg), e)

(* C11: in one collision pass, a live projectile whose owner is the player or
   does not exist, with neither piercing nor explosive, that overlaps a live
   enemy hits it once, the enemy's Health.current goes down by exactly the
   damage of the projectiles that hit it, and the projectile no longer exists
   after the pass. *)
C11_PlainProjectileDamagesAndIsDeleted ==
    op.name = "collision" =>
        \A p \in DOMAIN prev.Projectile : \A e \in prev.Enemy \cap DOMAIN prev.Health :
            ( /\ entity_exists(prev, p) /\ entity_exists(prev, e)
              /\ HitsEnemies(prev, p) /\ Plain(prev, p)
              /\ Overlap(prev, p, e) )
            => /\ LogCount("projectile_hit_enemy", p, e) = 1
               /\ ~entity_exists(world, p)
               /\ world.Health[e].current
                     = prev.Health[e].current - DamageDealt(prev, log, e)

-----------------------------------------------------------------------------
(* Duel: player 1 at P0, enemies 2 and 3 side by side, touching the player
   or out of reach, projectile 4 of enemy 2 on the player or on the enemies,
   optional projectile 5 of enemy 3 on the player *)

DuelScene(php, pinv, epos, on_player, qd, two) ==
    LET w1 == create_player(EmptyWorld, P0)
        w2 == create_enemy(w1, epos)
        w3 == create_enemy(w2, epos)
        w4 == create_projectile(w3, IF on_player THEN P0 ELSE epos, Polar(40, 360), qd, 2)
        w5 == IF two THEN create_projectile(w4, P0, Polar(40, 360), 1, 3) ELSE w4
    IN [w5 EXCEPT !.Health[1].current = php,
                  !.Invincible = IF pinv THEN Put(@, 1, INVINCIBILITY_DURATION) ELSE @]

DuelScenes ==
    {DuelScene(php, pinv, epos, on_player, qd, two) :
        php \in {1, 2, PLAYER_MAX_HP}, pinv \in BOOLEAN, epos \in {P1, P3},
        on_player \in BOOLEAN, qd \in {1, 2}, two \in BOOLEAN}

InitDuel ==
    /\ world \in DuelScenes
    /\ bomb_system = TRUE
    /\ InitCommon

NextDuel == CollisionProcess \/ InvincibilityProcess \/ ClearDeadEntities

SpecDuel == InitDuel /\ [][NextDuel]_vars

\* positions in the log of the damage rules applied to the player pl
TouchIdx(pl) ==
    {i \in 1..Len(log) :
        /\ log[i].rule \in {"projectile_hit_player", "enemy_contact_player"}
        /\ log[i].b = pl}

IsFirstTouch(i, pl) == i \in TouchIdx(pl) /\ \A j \in TouchIdx(pl) : i <= j

EnemyProjectiles(w) ==
    {q \in DOMAIN w.Projectile : owner_is_enemy(w, w.Projectile[q].owner)}

(* C12: in a collision pass, every projectile whose owner exists and is an
   enemy and that overlaps the player is applied to the player; when the
   player holds no Invincible at that moment (none at the start of the pass
   and nothing touched the player before), the player's Health.current goes
   down by exactly projectile.damage, the player holds Invincible with
   remaining = INVINCIBILITY_DURATION, the projectile no longer exists, the
   player is Dead exactly when the resulting health is <= 0, and the player
   entity still exists. *)
C12_EnemyProjectileDamagesPlayer ==
    op.name = "collision" =>
        \A pl \in (prev.Player \cap DOMAIN prev.Health) \ DOMAIN prev.Invincible :
        \A q \in EnemyProjectiles(prev) :
            /\ Overlap(prev, q, pl) => LogCount("projectile_hit_player", q, pl) = 1
            /\ \A i \in 1..Len(log) :
                  ( /\ IsFirstTouch(i, pl)
                    /\ log[i] = [rule |-> "projectile_hit_player", a |-> q, b |-> pl] )
                  => /\ world.Health[pl].current
                           = prev.Health[pl].current - prev.Projectile[q].damage
                     /\ pl \in DOMAIN world.Invincible
                     /\ world.Invincible[pl] = INVINCIBILITY_DURATION
                     /\ ~entity_exists(world, q)
                     /\ (pl \in world.Dead) <=> (world.Health[pl].current <= 0)
                     /\ entity_exists(world, pl)

\* reached: a projectile killed a player who held no Invincible
C12_Witness ==
    /\ op.name = "collision"
    /\ \E pl \in prev.Player \ DOMAIN prev.Invincible :
       \E q \in EnemyProjectiles(prev) :
          /\ \E i \in 1..Len(log) :
                /\ IsFirstTouch(i, pl)
                /\ log[i] = [rule |-> "projectile_hit_player", a |-> q, b |-> pl]
          /\ prev.Health[pl].current > 0
          /\ world.Health[pl].current = prev.Health[pl].current - prev.Projectile[q].damage
          /\ world.Health[pl].current <= 0
          /\ pl \in world.Dead
          /\ entity_exists(world, pl)

\* entities that the pass marked for deletion
NewlyDeleted == world.dead_entities \ prev.dead_entities

(* C13: in a collision pass, every enemy that overlaps the player is applied
   to the player by the contact rule; when the player holds no Invincible at
   that moment, the player's Health.current goes down by exactly 1, the
   player holds Invincible, and the player is Dead exactly when the
   resulting health is <= 0.  The contact rule deletes nothing: the player
   still exists, and so does every enemy that no projectile hit. *)
C13_ContactDamagesPlayer ==
    op.name = "collision" =>
        /\ \A pl \in (prev.Player \cap DOMAIN prev.Health) \ DOMAIN prev.Invincible :
           \A e \in prev.Enemy :
              /\ Overlap(prev, e, pl) => LogCount("enemy_contact_player", e, pl) = 1
              /\ \A i \in 1..Len(log) :
                    ( /\ IsFirstTouch(i, pl)
                      /\ log[i] = [rule |-> "enemy_contact_player", a |-> e, b |-> pl] )
                    => /\ world.Health[pl].current
                             = prev.Health[pl].current - CONTACT_DAMAGE
                       /\ pl \in DOMAIN world.Invincible
                       /\ world.Invincible[pl] = INVINCIBILITY_DURATION
                       /\ (pl \in world.Dead) <=> (world.Health[pl].current <= 0)
        /\ \A x \in NewlyDeleted :
              \/ x \in DOMAIN prev.Projectile
              \/ \E q \in DOMAIN prev.Projectile : LogHas("projectile_hit_enemy", q, x)

\* reached: the touch of an enemy killed a player who held no Invincible, and
\* both are still there
C13_Witness ==
    /\ op.name = "collision"
    /\ \E pl \in prev.Player \ DOMAIN prev.Invincible : \E e \in prev.Enemy :
          /\ \E i \in 1..Len(log) :
                /\ IsFirstTouch(i, pl)
                /\ log[i] = [rule |-> "enemy_contact_player", a |-> e, b |-> pl]
          /\ prev.Health[pl].current = CONTACT_DAMAGE
          /\ world.Health[pl].current = 0
          /\ pl \in world.Dead
          /\ entity_exists(world, pl)
          /\ entity_exists(world, e)

-----------------------------------------------------------------------------
(* Invincible on actors other than the player *)

\* the database w in which the actor e holds Invincible
Shielded(w, e) == [w EXCEPT !.Invincible = Put(@, e, INVINCIBILITY_DURATION)]

\* CollisionSystem._projectile_hit_enemy(p, e) called on the database w
HitOn(w, p, e) ==
    projectile_hit_enemy([w |-> w, log |-> <<>>, raised |-> "none", nrolls |-> 0],
                         p, e, bomb_system, AllNoLoot)

(* C14: Invincible means immunity for whoever holds it.  A collision pass
   changes the health of no actor that holds Invincible, a boss that has just
   gone through its phase transition holds the Invincible window, and a
   projectile hit on an enemy that holds Invincible leaves that enemy's
   Health.current as it was. *)
C14_InvincibleMeansImmunity ==
    /\ op.name = "collision" =>
          \A a \in DOMAIN prev.Invincible \cap DOMAIN prev.Health :
              world.Health[a].current = prev.Health[a].current
    /\ op.name = "boss_ai" =>
          \A b \in Bosses(prev) :
              (~prev.Boss[b].has_transitioned /\ world.Boss[b].has_transitioned)
              => HasInvincible(world, b)
    /\ \A p \in DOMAIN world.Projectile : \A e \in world.Enemy \cap DOMAIN world.Health :
          (HitsEnemies(world, p) /\ Overlap(world, p, e))
          => HitOn(Shielded(world, e), p, e).w.Health[e].current
                = world.Health[e].current

-----------------------------------------------------------------------------
(* Blasts in the duel room *)

\* PEdge lies at exactly BOMB_BLAST_RADIUS from P1
PEdge == Pt(-17, 4)

BlastCenters == {P0, P2, PEdge}

InitBlast ==
    /\ world \in DuelScenes
    /\ bomb_system = TRUE
    /\ InitCommon

\* BombSystem.damage_entities_in_radius(center, Config.BOMB_BLAST_RADIUS)
BlastAt ==
    /\ blasts < MaxBlasts
    /\ \E c \in BlastCenters :
          /\ world' = damage_entities_in_radius(world, c, BOMB_BLAST_RADIUS)
          /\ op' = [name |-> "blast_at", dt |-> 0, center |-> c]
    /\ prev' = world
    /\ log' = <<>>
    /\ raised' = "none"
    /\ blasts' = blasts + 1
    /\ UNCHANGED <<room_manager, current_state, victory, bomb_system, ticks, transitions, processors, trace>>

NextBlast == BlastAt \/ CollisionProcess \/ InvincibilityProcess \/ ClearDeadEntities

SpecBlast == InitBlast /\ [][NextBlast]_vars

\* the entity e of w is one that a blast of the given center damages
BlastTarget(w, center, e) ==
    /\ e \in DOMAIN w.Position
    /\ w.Health[e].current > 0
    /\ ~(e \in w.Player /\ e \in DOMAIN w.Invincible)
    /\ DistSq(center, w.Position[e]) <= BOMB_BLAST_RADIUS * BOMB_BLAST_RADIUS

(* C15: one call of the blast primitive subtracts the blast damage exactly
   once from Health.current of every entity with Position and Health whose
   health is > 0, that is not a player holding Invincible, and that lies at
   distance <= radius from the center, the boundary included; every other
   health, and everything else in the database, is unchanged. *)
C15_BlastDamagesExactlyTheTargets ==
    op.name = "blast_at" =>
        /\ DOMAIN world.Health = DOMAIN prev.Health
        /\ \A e \in DOMAIN prev.Health :
              world.Health[e].current =
                  IF BlastTarget(prev, op.center, e)
                  THEN prev.Health[e].current - BOMB_DAMAGE
                  ELSE prev.Health[e].current
        /\ world = [prev EXCEPT !.Health = world.Health]

\* reached: a blast damaged an enemy lying at exactly the radius and passed
\* over an invincible player inside the radius
C15_Witness ==
    /\ op.name = "blast_at"
    /\ \E e \in prev.Enemy :
          /\ DistSq(op.center, prev.Position[e]) = BOMB_BLAST_RADIUS * BOMB_BLAST_RADIUS
          /\ world.Health[e].current = prev.Health[e].current - BOMB_DAMAGE
    /\ \E pl \in prev.Player \cap DOMAIN prev.Invincible :
          /\ DistSq(op.center, prev.Position[pl]) < BOMB_BLAST_RADIUS * BOMB_BLAST_RADIUS
          /\ world.Health[pl].current = prev.Health[pl].current

-----------------------------------------------------------------------------
(* Failures inside a collision pass *)

\* the database w in which the entity e carries no Health
WithoutHealth(w, e) == [w EXCEPT !.Health = Restrict(@, DOMAIN @ \ {e})]

(* C16: no partial mutation is left behind by a failed interaction.  When a
   collision pass ends in an exception raised by a projectile hit, the enemy
   of that hit has the health it had before the hit: the damage of the
   failed hit has not been applied. *)
C16_NoPartialMutation ==
    (op.name = "collision" /\ raised # "none" /\ Len(log) > 0) =>
        LET last == log[Len(log)] IN
        (last.rule = "projectile_hit_enemy" /\ last.b \in DOMAIN prev.Health) =>
            world.Health[last.b].current
                = prev.Health[last.b].current
                    - DamageDealt(prev, SubSeq(log, 1, Len(log) - 1), last.b)

(* C17: a collision pass never raises, and a projectile hit on an
   Enemy-marked entity that carries no Health raises nothing and changes
   nothing. *)
C17_PassNeverRaises ==
    op.name = "collision" =>
        /\ raised = "none"
        /\ \A p \in DOMAIN prev.Projectile : \A e \in prev.Enemy :
              (HitsEnemies(prev, p) /\ Overlap(prev, p, e))
              => /\ HitOn(WithoutHealth(prev, e), p, e).raised = "none"
                 /\ HitOn(WithoutHealth(prev, e), p, e).w = WithoutHealth(prev, e)

-----------------------------------------------------------------------------
(* Ownership of projectiles *)

Handled(a, b) ==
    LogCount("handle_collision", a, b) + LogCount("handle_collision", b, a) > 0

OwnerAbsent(w, p) == ~entity_exists(w, w.Projectile[p].owner)

(* C18: a projectile whose owner does not exist is treated as owner-absent
   in a collision pass.  Every enemy it is paired with is hit by it, it is
   never applied to a player, it no longer exists after a pass in which it
   hit an enemy - whatever effects the player holds - and no exception of
   the pass comes from handling it. *)
C18_StaleOwnerIsOwnerAbsent ==
    op.name = "collision" =>
        \A p \in DOMAIN prev.Projectile :
            OwnerAbsent(prev, p) =>
                /\ \A e \in prev.Enemy :
                      Handled(p, e) => LogCount("projectile_hit_enemy", p, e) = 1
                /\ \A pl \in prev.Player : ~LogHas("projectile_hit_player", p, pl)
                /\ (\E e \in prev.Enemy : LogHas("projectile_hit_enemy", p, e))
                      => ~entity_exists(world, p)
                /\ (raised # "none") => log[Len(log)].a # p

\* reached: the player holds piercing and explosive and overlaps the
\* projectile, whose owner does not exist; the projectile hit an enemy, was
\* not applied to the player and is gone
C18_Witness ==
    /\ op.name = "collision"
    /\ raised = "none"
    /\ \E p \in DOMAIN prev.Projectile :
          /\ OwnerAbsent(prev, p)
          /\ entity_exists(prev, p)
          /\ \E pl \in prev.Player :
                /\ Effects(prev, pl) = {"piercing", "explosive"}
                /\ Overlap(prev, p, pl)
                /\ Handled(pl, p)
                /\ ~LogHas("projectile_hit_player", p, pl)
          /\ \E e \in prev.Enemy :
                /\ LogHas("projectile_hit_enemy", p, e)
                /\ world.Health[e].current < prev.Health[e].current
          /\ ~entity_exists(world, p)

(* C19: a projectile whose owner exists and is an enemy, from the start of a
   collision pass to its end, is never applied to an enemy in that pass -
   neither to its owner nor to another enemy: enemies lose health only to
   the projectiles that hit them, and the projectile is deleted only by
   being applied to a player. *)
C19_EnemyProjectileSparesEnemies ==
    op.name = "collision" =>
        \A q \in EnemyProjectiles(prev) :
            entity_exists(world, prev.Projectile[q].owner) =>
                /\ \A e \in prev.Enemy : ~LogHas("projectile_hit_enemy", q, e)
                /\ (q \in NewlyDeleted)
                      => \E pl \in prev.Player : LogHas("projectile_hit_player", q, pl)
                /\ \A e \in prev.Enemy \cap DOMAIN prev.Health :
                      raised = "none" =>
                          world.Health[e].current
                              = prev.Health[e].current - DamageDealt(prev, log, e)

\* reached: the projectile of enemy 2 overlapped enemy 2 and enemy 3 and no
\* player; both enemies were paired with it, and it is still there
C19_Witness ==
    /\ op.name = "collision"
    /\ \E q \in EnemyProjectiles(prev) :
          /\ Handled(q, prev.Projectile[q].owner)
          /\ \E e \in prev.Enemy \ {prev.Projectile[q].owner} : Handled(q, e)
          /\ \A pl \in prev.Player : ~Overlap(prev, q, pl)
          /\ entity_exists(world, q)
          /\ \A e \in prev.Enemy : world.Health[e] = prev.Health[e]

-----------------------------------------------------------------------------
(* Loot of a dead enemy *)

NewItems == world.Item \ prev.Item

NewCoins == world.Coin \ prev.Coin

\* positions in the log of the projectile hits that left their enemy at
\* health <= 0
KillIdx ==
    {i \in 1..Len(log) :
        /\ log[i].rule = "projectile_hit_enemy"
        /\ log[i].b \in DOMAIN prev.Health
        /\ prev.Health[log[i].b].current
              - DamageDealt(prev, SubSeq(log, 1, i), log[i].b) <= 0}

(* C20: when a projectile hit leaves an enemy at Health.current <= 0, an item
   roll and a coin roll are made, a coin roll spawns at most 2 coins, every
   loot entity of the pass lies at the position of an enemy that died in it,
   and the enemy no longer exists after the pass. *)
C20_LootThenDeletion ==
    op.name = "collision" =>
        /\ Cardinality(NewItems) <= Cardinality(KillIdx)
        /\ Cardinality(NewCoins) <= 2 * Cardinality(KillIdx)
        /\ \A x \in NewItems \cup NewCoins :
              \E i \in KillIdx : world.Position[x] = prev.Position[log[i].b]
        /\ \A i \in KillIdx : ~entity_exists(world, log[i].b)

-----------------------------------------------------------------------------
(* Invincibility ticks over several holders: the duel room in which any of
   the player and the two enemies holds Invincible, with remaining times of
   one to three quarters of a second *)

TickScenes ==
    {[DuelScene(PLAYER_MAX_HP, FALSE, epos, TRUE, 1, FALSE) EXCEPT !.Invincible = inv] :
        epos \in {P1, P3},
        inv \in UNION {[H -> {1, 2, 3}] : H \in SUBSET {1, 2, 3}}}

InitTick ==
    /\ world \in TickScenes
    /\ bomb_system = TRUE
    /\ InitCommon

NextTick == InvincibilityProcess \/ CollisionProcess \/ ClearDeadEntities

SpecTick == InitTick /\ [][NextTick]_vars

(* C21: an Invincibility tick subtracts dt from the remaining time of every
   Invincible and removes the component when the result is <= 0, so every
   Invincible present after the tick has remaining > 0, however many entities
   hold one; the tick changes nothing else in the database. *)
C21_TickDecrementsAndRemoves ==
    op.name = "invincibility" =>
        /\ DOMAIN world.Invincible \subseteq DOMAIN prev.Invincible
        /\ \A e \in DOMAIN prev.Invincible :
              IF prev.Invincible[e] - op.dt <= 0
              THEN e \notin DOMAIN world.Invincible
              ELSE /\ e \in DOMAIN world.Invincible
                   /\ world.Invincible[e] = prev.Invincible[e] - op.dt
        /\ \A e \in DOMAIN world.Invincible : world.Invincible[e] > 0
        /\ world = [prev EXCEPT !.Invincible = world.Invincible]

\* reached: one tick over three holders removed one whose time ran out
\* exactly, removed one whose time went below zero and kept the third
C21_Witness ==
    /\ op.name = "invincibility"
    /\ Cardinality(DOMAIN prev.Invincible) = 3
    /\ \E a \in DOMAIN prev.Invincible : \E b \in DOMAIN prev.Invincible :
       \E c \in DOMAIN prev.Invincible :
          /\ prev.Invincible[a] - op.dt = 0 /\ a \notin DOMAIN world.Invincible
          /\ prev.Invincible[b] - op.dt < 0 /\ b \notin DOMAIN world.Invincible
          /\ c \in DOMAIN world.Invincible /\ world.Invincible[c] = 1

-----------------------------------------------------------------------------
(* Pattern and teleport timers of the boss, checked under SpecBoss *)

\* the database w in which no generator is bound to the pattern name of b
Unbound(w, b) == [w EXCEPT !.BossAI[b].pattern_name = "unbound"]

(* C22: a Boss-AI tick decrements pattern_timer by dt.  When the result is
   <= 0, one projectile per vector of the generator bound to the boss's
   pattern_name is spawned at the boss's position and pattern_timer is reset
   to pattern_cooldown; otherwise nothing is spawned.  With no generator
   bound to pattern_name, the pattern step spawns nothing and raises
   nothing. *)
C22_PatternFiresOnExpiry ==
    op.name = "boss_ai" =>
        \A b \in Bosses(prev) \cap DOMAIN prev.Position \cap DOMAIN prev.Health :
            LET t == prev.BossAI[b].pattern_timer - op.dt
                ai == world.BossAI[b]
                shots == get_pattern_for_boss(world.Boss[b].boss_type,
                                              world.Boss[b].current_phase,
                                              ai.pattern_name, prev.Position[b])
                fresh == world.entities \ prev.entities
                idle == update_pattern([w |-> Unbound(prev, b), log |-> <<>>,
                                        raised |-> "none", nrolls |-> 0], b, op.dt)
            IN /\ IF t <= 0
                  THEN /\ ai.pattern_timer = ai.pattern_cooldown
                       /\ Cardinality(fresh) = Len(shots)
                       /\ \A k \in 1..Len(shots) :
                             LET e == prev.entity_count + k IN
                             /\ e \in fresh \cap DOMAIN world.Projectile
                             /\ world.Position[e] = Pt(shots[k].x, shots[k].y)
                             /\ world.Position[e] = prev.Position[b]
                             /\ world.Velocity[e] = shots[k].v
                  ELSE /\ ai.pattern_timer = t
                       /\ fresh = {}
               /\ idle.raised = "none"
               /\ idle.w.entities = prev.entities
               /\ idle.log = <<>>

(* C23: when a boss's teleport_timer is <= 0 after the decrement of a
   Boss-AI tick, the teleport is carried out: the tick raises nothing, the
   boss has a Position, and teleport_timer is reset to teleport_cooldown. *)
C23_TeleportOnExpiry ==
    op.name = "boss_ai" =>
        \A b \in Bosses(prev) :
            LogHas("teleport_boss", b, b) =>
                /\ raised = "none"
                /\ b \in DOMAIN world.Position
                /\ world.BossAI[b].teleport_timer = world.BossAI[b].teleport_cooldown

(* C24: a missing player never halts boss behaviour.  A Boss-AI tick on a
   database without a player raises nothing, fires the pattern when
   pattern_timer expires and resets teleport_timer to teleport_cooldown when
   teleport_timer expires. *)
C24_NoPlayerNeverHalts ==
    (op.name = "boss_ai" /\ prev.Player = {}) =>
        /\ raised = "none"
        /\ \A b \in Bosses(prev) :
              /\ prev.BossAI[b].pattern_timer - op.dt <= 0
                    => LogHas("execute_pattern", b, b)
              /\ prev.BossAI[b].teleport_timer - op.dt <= 0
                    => world.BossAI[b].teleport_timer = world.BossAI[b].teleport_cooldown
              /\ ~(prev.BossAI[b].teleport_timer - op.dt <= 0)
                    => world.BossAI[b].teleport_timer = prev.BossAI[b].teleport_timer - op.dt

-----------------------------------------------------------------------------
(* Single calls: the overlap test applied to the pairs of the duel room *)

\* CollisionSystem._check_collision(e1, e2) and the same call with the
\* arguments exchanged
CheckCollision ==
    /\ \E e1 \in Collidable(world) : \E e2 \in Collidable(world) :
          /\ e1 < e2
          /\ op' = [name |-> "check_collision", dt |-> 0, e1 |-> e1, e2 |-> e2,
                    result |-> check_collision(world, e1, e2),
                    swapped |-> check_collision(world, e2, e1)]
    /\ prev' = world
    /\ log' = <<>>
    /\ raised' = "none"
    /\ UNCHANGED <<world, room_manager, current_state, victory, bomb_system, ticks, blasts, transitions, processors, trace>>

(* C25: the overlap test of two entities with Position and Collider is true
   exactly when the Euclidean distance of their positions is strictly less
   than the sum of their radii - with d the whole part of the distance, when
   d < radius_a + radius_b - and it gives the same result for (a, b) and
   (b, a). *)
C25_OverlapIsStrictAndSymmetric ==
    op.name = "check_collision" =>
        LET dsq == DistSq(world.Position[op.e1], world.Position[op.e2])
            d == CHOOSE n \in 0..dsq : n * n <= dsq /\ dsq < (n + 1) * (n + 1)
        IN /\ op.result <=> (d < world.Collider[op.e1] + world.Collider[op.e2])
           /\ op.result = op.swapped

\* reached: the test was applied to two circles that touch, at a distance
\* equal to the sum of the radii, and found no collision
C25_Witness ==
    /\ op.name = "check_collision"
    /\ LET rsum == world.Collider[op.e1] + world.Collider[op.e2]
       IN /\ DistSq(world.Position[op.e1], world.Position[op.e2]) = rsum * rsum
          /\ rsum > 0
    /\ ~op.result
    /\ ~op.swapped

-----------------------------------------------------------------------------
(* Homing room: player 1 at P0, up to two enemies around it, then a
   projectile of the player at P0 flying at 5.0 or 8.0 units per second, and
   an optional slow projectile whose owner is entity 2 or nobody *)

HomingSpeeds == {500, 800}

HomingScenes ==
    LET around == {<<>>, <<Pt(20, 0)>>, <<Pt(-20, 0)>>, <<Pt(20, 0), Pt(0, 20)>>,
                   <<Pt(0, 20), Pt(20, 0)>>, <<Pt(20, 0), Pt(-14, -14)>>}
        heading(a, v) == [dx |-> (Cos(a) * v) \div 1000, dy |-> (Sin(a) * v) \div 1000]
        scene(eff, en, a, v, other) ==
            LET w1 == create_player(EmptyWorld, P0)
                w2 == IF Len(en) >= 1 THEN create_enemy(w1, en[1]) ELSE w1
                w3 == IF Len(en) >= 2 THEN create_enemy(w2, en[2]) ELSE w2
                w4 == create_projectile(w3, P0, heading(a, v), 1, 1)
                w5 == IF other = 0 THEN w4
                      ELSE create_projectile(w4, P0, [dx |-> 100, dy |-> 0], 1, other)
            IN [w5 EXCEPT !.CollectedItems = IF eff = {} THEN @ ELSE Put(@, 1, eff)]
    IN {scene(eff, en, a, v, other) :
            eff \in {{}, {"piercing"}, {"homing"}, {"homing", "piercing"}},
            en \in around, a \in {-180, 0, 180, 360}, v \in HomingSpeeds,
            other \in {0, -1, 2}}

InitHoming ==
    /\ world \in HomingScenes
    /\ bomb_system = TRUE
    /\ InitCommon

\* HomingSystem.process() with self.dt = dt
HomingProcess ==
    /\ ticks < MaxSteps
    /\ \E dt \in DtValues :
          Ran("homing", dt,
              [w |-> homing_process(world, dt), log |-> <<>>, raised |-> "none"])
    /\ UNCHANGED <<room_manager, current_state, victory, bomb_system, blasts, processors, trace>>

NextHoming == HomingProcess \/ CollisionProcess \/ ClearDeadEntities

SpecHoming == InitHoming /\ [][NextHoming]_vars

(* C26: homing preserves speed.  After any number of homing ticks, with any
   dt and any enemies, the magnitude sqrt(dx^2 + dy^2) of the velocity of a
   projectile of the player is the speed it was fired with, within one
   hundredth of a unit per second. *)
C26_HomingPreservesSpeed ==
    \A p \in PlayerProjectiles(world) :
        LET vel == world.Velocity[p] IN
        \E v \in HomingSpeeds :
            /\ (v - 1) * (v - 1) <= vel.dx * vel.dx + vel.dy * vel.dy
            /\ vel.dx * vel.dx + vel.dy * vel.dy <= (v + 1) * (v + 1)

\* reached: two homing ticks in a row turned the velocity of a projectile
\* that flies neither along an axis nor along a diagonal afterwards
C26_Witness ==
    /\ op.name = "homing"
    /\ ticks = 2
    /\ \E p \in PlayerProjectiles(world) :
          /\ world.Velocity[p] # prev.Velocity[p]
          /\ world.Velocity[p].dx # 0
          /\ world.Velocity[p].dy # 0
          /\ world.Velocity[p].dx # world.Velocity[p].dy
          /\ world.Velocity[p].dx # -world.Velocity[p].dy
          /\ Atan2(prev.Velocity[p].dy, prev.Velocity[p].dx) \notin {-180, 0, 180, 360}

(* C27: in one homing tick the velocity angle of a steered projectile turns
   toward the angle of the nearest enemy - the first one found on equal
   distances - by at most HOMING_TURN_RATE * dt, along the shorter rotation
   direction and never past the target: the angle turns by the smaller of
   the angle left and the bound, and the angle left shrinks by exactly the
   amount turned, so it is zero when it was within the bound. *)
C27_TurnIsClampedTowardNearest ==
    (op.name = "homing" /\ player_has_homing(prev)) =>
        \A p \in PlayerProjectiles(prev) :
        \A e \in prev.Enemy \cap DOMAIN prev.Position :
            LET d(f) == DistSq(prev.Position[p], prev.Position[f])
                apart(a, b) == LET m == (a - b) % 720
                               IN IF m > 360 THEN 720 - m ELSE m
                cur == Atan2(prev.Velocity[p].dy, prev.Velocity[p].dx)
                new == Atan2(world.Velocity[p].dy, world.Velocity[p].dx)
                tar == Atan2(prev.Position[e].y - prev.Position[p].y,
                             prev.Position[e].x - prev.Position[p].x)
                bound == HOMING_TURN_RATE * op.dt
            IN (\A f \in prev.Enemy \cap DOMAIN prev.Position :
                    d(e) < d(f) \/ (d(e) = d(f) /\ e <= f))
               => /\ apart(new, cur) = (IF apart(cur, tar) < bound
                                        THEN apart(cur, tar) ELSE bound)
                  /\ apart(new, tar) = apart(cur, tar) - apart(new, cur)

\* reached: with two enemies at the same distance, a projectile more than
\* the bound away from the first one's angle turned by exactly the bound
C27_Witness ==
    /\ op.name = "homing"
    /\ player_has_homing(prev)
    /\ \E p \in PlayerProjectiles(prev) :
       \E e \in prev.Enemy : \E f \in prev.Enemy :
          /\ e < f
          /\ DistSq(prev.Position[p], prev.Position[e])
                = DistSq(prev.Position[p], prev.Position[f])
          /\ LET cur == Atan2(prev.Velocity[p].dy, prev.Velocity[p].dx)
                 new == Atan2(world.Velocity[p].dy, world.Velocity[p].dx)
                 tar == Atan2(prev.Position[e].y - prev.Position[p].y,
                              prev.Position[e].x - prev.Position[p].x)
             IN /\ (new - cur) % 720 \in {HOMING_TURN_RATE * op.dt,
                                          720 - HOMING_TURN_RATE * op.dt}
                /\ new # tar
                /\ (tar - cur) % 720 = 360

(* C28: a homing tick changes nothing but velocities of projectiles, and it
   leaves the velocity of a projectile as it was when no player holds the
   "homing" effect, when no enemy exists, when the projectile's owner does
   not exist, or when the owner is not the player. *)
C28_HomingLeavesOthersAlone ==
    op.name = "homing" =>
        /\ world = [prev EXCEPT !.Velocity = world.Velocity]
        /\ DOMAIN world.Velocity = DOMAIN prev.Velocity
        /\ \A e \in DOMAIN prev.Velocity :
              ( \/ e \notin DOMAIN prev.Projectile
                \/ \A pl \in prev.Player : "homing" \notin Effects(prev, pl)
                \/ prev.Enemy = {}
                \/ ~entity_exists(prev, prev.Projectile[e].owner)
                \/ prev.Projectile[e].owner \notin prev.Player )
              => world.Velocity[e] = prev.Velocity[e]

\* reached: one tick steered the player's projectile and left alone a
\* projectile, owned by an enemy, that does not fly toward the nearest enemy
C28_Witness ==
    /\ op.name = "homing"
    /\ \E p \in PlayerProjectiles(prev) : world.Velocity[p] # prev.Velocity[p]
    /\ \E q \in EnemyProjectiles(prev) :
          /\ world.Velocity[q] = prev.Velocity[q]
          /\ prev.Position[nearest_enemy(prev, q)].y # prev.Position[q].y

-----------------------------------------------------------------------------
(* Single calls: component constructors and pattern generators *)

\* one constructor call; b is max_hp of Health and owner of Projectile
Construct ==
    /\ \E kind \in {"Health", "Collider", "Projectile", "Invincible"} :
       \E a \in -1..2 : \E b \in -1..2 :
          /\ kind \in {"Collider", "Invincible"} => b = 0
          /\ LET result == CASE kind = "Health" -> Health(a, b)
                             [] kind = "Collider" -> Collider(a)
                             [] kind = "Projectile" -> Projectile(a, b)
                             [] kind = "Invincible" -> Invincible(a)
             IN /\ op' = [name |-> "construct", dt |-> 0, kind |-> kind,
                          a |-> a, b |-> b, component |-> result.component]
                /\ raised' = result.raised
    /\ prev' = world
    /\ log' = <<>>
    /\ UNCHANGED <<world, room_manager, current_state, victory, bomb_system, ticks, blasts, transitions, processors, trace>>

\* generate_spiral_pattern and generate_pulse_pattern called with the same
\* origin, count and speed; counts divide the full circle of 720 half degrees
Generate ==
    /\ \E origin \in {P0, P1} : \E rotation \in {0, 90, 700} :
       \E count \in {1, 3, 8, 12, 16} : \E speed \in {35, 40} :
          op' = [name |-> "generate", dt |-> 0, origin |-> origin,
                 rotation |-> rotation, count |-> count, speed |-> speed,
                 spiral |-> generate_spiral_pattern(origin, rotation, count, speed),
                 unrotated |-> generate_spiral_pattern(origin, 0, count, speed),
                 pulse |-> generate_pulse_pattern(origin, count, speed)]
    /\ prev' = world
    /\ log' = <<>>
    /\ raised' = "none"
    /\ UNCHANGED <<world, room_manager, current_state, victory, bomb_system, ticks, blasts, transitions, processors, trace>>

NextCalls == CheckCollision \/ Construct \/ Generate

\* the duel rooms with a healthy player: enemies touching or apart, the
\* projectile on the player or on the enemies, one projectile or two
InitCalls ==
    /\ world \in {DuelScene(PLAYER_MAX_HP, FALSE, epos, on_player, 1, two) :
                     epos \in {P1, P3}, on_player \in BOOLEAN, two \in BOOLEAN}
    /\ bomb_system = TRUE
    /\ InitCommon

SpecCalls == InitCalls /\ [][NextCalls]_vars

(* C29: constructing Health with negative current, negative max or
   current > max, Collider with negative radius, Projectile with negative
   damage, or Invincible with negative duration raises ValueError and yields
   no component; every other call, the boundary value zero included, raises
   nothing and yields the component with the values given. *)
C29_InvalidValuesAreRejected ==
    op.name = "construct" =>
        LET invalid == IF op.kind = "Health"
                       THEN op.a < 0 \/ op.b < 0 \/ op.a > op.b
                       ELSE op.a < 0
        IN IF invalid
           THEN raised = "ValueError" /\ op.component = <<>>
           ELSE /\ raised = "none"
                /\ Len(op.component) = 1
                /\ op.kind = "Health" => op.component[1] = [current |-> op.a, max |-> op.b]
                /\ op.kind = "Collider" => op.component[1] = op.a
                /\ op.kind = "Projectile"
                      => op.component[1] = [damage |-> op.a, owner |-> op.b]
                /\ op.kind = "Invincible" => op.component[1] = op.a

\* reached: Health(2, 1), neither argument negative, was rejected
C29_Witness ==
    /\ op.name = "construct"
    /\ op.kind = "Health"
    /\ op.a = 2
    /\ op.b = 1
    /\ raised = "ValueError"
    /\ op.component = <<>>

(* C30: for every origin, count >= 1 and speed, the pulse generator returns
   exactly the vectors of the spiral generator with rotation 0; a spiral
   returns exactly count vectors, all at the origin, the i-th (from 0) with
   the given speed and the direction rotation + i * (360 / count) degrees. *)
C30_PulseIsUnrotatedSpiral ==
    op.name = "generate" =>
        /\ op.pulse = op.unrotated
        /\ Len(op.spiral) = op.count
        /\ \A k \in 1..Len(op.spiral) :
              /\ op.spiral[k].x = op.origin.x
              /\ op.spiral[k].y = op.origin.y
              /\ op.spiral[k].v.speed = op.speed
              /\ (op.spiral[k].v.angle
                    - (op.rotation + ((k - 1) * 720) \div op.count)) % 720 = 0

\* reached: a ring of 16 at P1, with a spiral turned by 350 degrees whose
\* last directions wrap around the full circle
C30_Witness ==
    /\ op.name = "generate"
    /\ op.count = 16
    /\ op.origin = P1
    /\ op.rotation = 700
    /\ Len(op.pulse) = 16
    /\ op.pulse[16].v.angle = 675
    /\ op.spiral[16].v.angle = 655

-----------------------------------------------------------------------------
(* Rooms and game state: the start room or the combat room north of it, the
   player on the north door, in the centre or on the south door, an enemy on
   the player in the uncleared combat room, the collision system with or
   without the room manager *)

\* GameStateSystem.process with the death test ahead of the victory test
game_state_process_death_first(cs, flag, w) ==
    LET players == w.Player \cap DOMAIN w.Health
        first == CHOOSE e \in players : \A f \in players : e <= f
    IN IF cs \in {"victory", "game_over"} THEN cs
       ELSE IF players # {} /\ w.Health[first].current <= 0 THEN "game_over"
       ELSE IF flag THEN "victory"
       ELSE cs

\* GameStateSystem.process: the current_state it leaves; cs is current_state
\* and flag is floor_transition_system.victory
game_state_process(cs, flag, w) ==
    LET players == w.Player \cap DOMAIN w.Health
        first == CHOOSE e \in players : \A f \in players : e <= f
    IN IF cs \in {"victory", "game_over"} THEN cs
       ELSE IF flag THEN "victory"
       ELSE IF players = {} THEN cs
       ELSE IF w.Health[first].current <= 0 THEN "game_over"
       ELSE cs

InitRoom ==
    /\ \E ppos \in {Pt(300, 10), Pt(300, 100), Pt(300, 180)},
          php \in {1, PLAYER_MAX_HP}, player \in BOOLEAN, foe \in BOOLEAN,
          m \in [current_position : {<<0, 0>>, <<0, -1>>}, cleared : BOOLEAN],
          attached \in BOOLEAN :
          LET w1 == IF player
                    THEN [create_player(EmptyWorld, ppos) EXCEPT !.Health[1].current = php]
                    ELSE EmptyWorld
              w2 == IF foe THEN create_enemy(w1, Pt(ppos.x + 3, ppos.y + 4)) ELSE w1
          IN /\ foe => (m.current_position = <<0, -1>> /\ ~m.cleared)
             /\ world = spawn_room_contents(w2, m)
             /\ room_manager = IF attached THEN <<m>> ELSE <<>>
    /\ bomb_system = TRUE
    /\ current_state = "playing"
    /\ victory = FALSE
    /\ op = NoOp
    /\ prev = world
    /\ log = <<>>
    /\ raised = "none"
    /\ ticks = 0
    /\ blasts = 0
    /\ transitions = 0
    /\ processors = EngineProcessors
    /\ trace = <<>>

\* GameStateSystem.process()
GameStateProcess ==
    /\ current_state' = game_state_process(current_state, victory, world)
    /\ op' = [name |-> "game_state", dt |-> 0, before |-> current_state]
    /\ prev' = world
    /\ log' = <<>>
    /\ raised' = "none"
    /\ UNCHANGED <<world, room_manager, victory, bomb_system, ticks, blasts, transitions,
                   processors, trace>>

\* floor_transition_system.victory is set, or cleared again
SetVictory ==
    /\ victory' = ~victory
    /\ op' = [name |-> "set_victory", dt |-> 0]
    /\ prev' = world
    /\ log' = <<>>
    /\ raised' = "none"
    /\ UNCHANGED <<world, room_manager, current_state, bomb_system, ticks, blasts,
                   transitions, processors, trace>>

NextRoom == CollisionProcess \/ InvincibilityProcess \/ GameStateProcess \/ SetVictory

SpecRoom == InitRoom /\ [][NextRoom]_vars

\* C31: current_state starts as PLAYING; a process() call that finds VICTORY
\* or GAME_OVER leaves current_state as it is, whatever the victory flag and
\* the player's health are by then; from PLAYING a set victory flag gives
\* VICTORY even when the player's health is <= 0; without a player entity
\* and without the flag the state stays PLAYING.
C31_TerminalStatesAbsorb ==
    /\ op.name = "init" => current_state = "playing"
    /\ op.name = "game_state" =>
          /\ op.before \in {"victory", "game_over"} => current_state = op.before
          /\ (op.before = "playing" /\ victory) => current_state = "victory"
          /\ (op.before = "playing" /\ ~victory /\ world.Player = {}) =>
                current_state = "playing"

C31_Witness ==
    /\ op.name = "game_state"
    /\ op.before = "playing"
    /\ victory
    /\ current_state = "victory"
    /\ \E pl \in world.Player : world.Health[pl].current <= 0

\* C32: in a collision pass every room transition is triggered by a player
\* and an unlocked door that overlapped when the pass began, and a pass
\* triggers at most one; a locked door triggers none; without a room manager
\* a pass triggers none and raises nothing, a player on an unlocked door
\* included.
C32_TransitionOnlyOnUnlockedDoor ==
    op.name = "collision" =>
        LET trans == {i \in 1..Len(log) : log[i].rule = "transition_to_room"} IN
        /\ Cardinality(trans) <= 1
        /\ \A i \in trans :
              /\ log[i].a \in prev.Player
              /\ log[i].b \in DOMAIN prev.Door
              /\ ~prev.Door[log[i].b].locked
              /\ Overlap(prev, log[i].a, log[i].b)
        /\ room_manager = <<>> => (trans = {} /\ raised = "none" /\ world.Door = prev.Door)

C32_Witness ==
    /\ op.name = "collision"
    /\ room_manager # <<>>
    /\ \E i \in 1..Len(log) :
          /\ log[i].rule = "transition_to_room"
          /\ log[i].b \notin DOMAIN world.Door
          /\ Overlap(prev, log[i].a, log[i].b)

-----------------------------------------------------------------------------
(* C33: the phase-transition check runs before the timers of the same
   Boss-AI tick.  In a tick that finds a boss at or below its threshold and
   not yet transitioned, the boss ends in phase 2; a pattern_timer that
   expires in that tick fires the phase-2 pattern, one projectile per vector
   of its generator; a teleport_timer that expires in that tick is reset to
   the phase-2 teleport cooldown. *)
C33_PhaseCheckPrecedesTimers ==
    op.name = "boss_ai" =>
        \A b \in Bosses(prev) \cap DOMAIN prev.Position \cap DOMAIN prev.Health :
            (~prev.Boss[b].has_transitioned /\ AtOrBelowThreshold(prev, b)) =>
                LET data == BOSS_DATA[prev.Boss[b].boss_type]
                    shots == get_pattern_for_boss(prev.Boss[b].boss_type, 2,
                                                  data.phase_2_patterns[1],
                                                  prev.Position[b])
                IN /\ world.Boss[b].current_phase = 2
                   /\ world.BossAI[b].pattern_name = data.phase_2_patterns[1]
                   /\ prev.BossAI[b].pattern_timer - op.dt <= 0 =>
                         /\ LogHas("execute_pattern", b, b)
                         /\ Cardinality(world.entities \ prev.entities) = Len(shots)
                         /\ \A k \in 1..Len(shots) :
                               world.Velocity[prev.entity_count + k] = shots[k].v
                   /\ prev.BossAI[b].teleport_timer - op.dt <= 0 =>
                         world.BossAI[b].teleport_timer = data.teleport_cooldowns.phase_2

-----------------------------------------------------------------------------
(* C34: a projectile whose owner holds no piercing effect damages at most
   one target.  In one collision pass it is applied to at most one enemy,
   however many enemies it overlaps. *)
C34_PlainProjectileHitsOnce ==
    op.name = "collision" =>
        \A p \in DOMAIN prev.Projectile :
            ~owner_has_effect(prev, prev.Projectile[p].owner, "piercing") =>
                Cardinality({i \in 1..Len(log) :
                                /\ log[i].rule = "projectile_hit_enemy"
                                /\ log[i].a = p}) <= 1

-----------------------------------------------------------------------------
(* C35: an explosive hit sets off a blast of explosionDamage > 0 at the
   projectile's position.  In a collision pass with the bomb system attached,
   after a projectile of a player holding "explosive" hit an enemy, the pass
   has raised nothing, the hit enemy, if the direct hits left it alive, has
   lost more than their damage, and every other live entity with Health
   within the bomb blast radius of the projectile that no projectile hit has
   lost health, except a player holding Invincible. *)
C35_ExplosiveHitBlasts ==
    (op.name = "collision" /\ bomb_system) =>
        \A p \in PlayerProjectiles(prev) : \A e \in prev.Enemy \cap DOMAIN prev.Health :
            ( /\ "explosive" \in Effects(prev, prev.Projectile[p].owner)
              /\ LogHas("projectile_hit_enemy", p, e) )
            => LET direct(x) == DamageDealt(prev, log, x) IN
               /\ raised = "none"
               /\ prev.Health[e].current - direct(e) > 0
                     => world.Health[e].current < prev.Health[e].current - direct(e)
               /\ \A x \in DOMAIN prev.Health \ {e} :
                     (BlastTarget(prev, prev.Position[p], x) /\ direct(x) = 0)
                        => world.Health[x].current < prev.Health[x].current
               /\ \A pl \in prev.Player \cap DOMAIN prev.Invincible :
                     world.Health[pl].current = prev.Health[pl].current

-----------------------------------------------------------------------------
(* C36: an enemy brought to Health.current <= 0 in a collision pass takes
   part in nothing later in that pass.  After the hit that killed it, no
   projectile is applied to it, it is not applied to the player by the
   contact rule, and no second hit finds it at health <= 0, so its loot is
   rolled once. *)
C36_KilledEnemyIsOutOfThePass ==
    op.name = "collision" =>
        \A i \in KillIdx : \A j \in 1..Len(log) :
            j > i =>
                /\ ~(log[j].rule = "projectile_hit_enemy" /\ log[j].b = log[i].b)
                /\ ~(log[j].rule = "enemy_contact_player" /\ log[j].a = log[i].b)

-----------------------------------------------------------------------------
(* C37: a player whose Health.current is <= 0 carries the Dead marker,
   whichever system took the health: an enemy projectile, enemy contact or
   the blast primitive. *)
C37_DeadMarkerFollowsHealth ==
    \A pl \in world.Player \cap DOMAIN world.Health :
        world.Health[pl].current <= 0 => pl \in world.Dead

-----------------------------------------------------------------------------
(* C38: a boss made by create_boss is a target of player attacks.  In a room
   with a live boss that holds no Invincible and a live player, a projectile
   of damage 1 owned by the player and lying on the boss is applied to the
   boss by a collision pass: the boss's Health.current goes down by 1. *)
C38_BossTakesPlayerProjectiles ==
    \A b \in Bosses(world) : \A pl \in world.Player :
        ( /\ entity_exists(world, b) /\ entity_exists(world, pl)
          /\ ~HasInvincible(world, b)
          /\ b \in DOMAIN world.Position \cap DOMAIN world.Health )
        => LET shot == create_projectile(world, world.Position[b], Polar(80, 0), 1, pl)
               p == shot.entity_count
               pass == collision_process(shot, bomb_system, <<>>, AllNoLoot)
           IN /\ Overlap(shot, p, b)
              /\ pass.w.Health[b].current = world.Health[b].current - 1

-----------------------------------------------------------------------------
(* C39: one Boss-AI tick, of any dt > 0, fires at most one burst and makes at
   most one teleport per boss, and leaves each timer whose cooldown is
   positive strictly positive: equal to the cooldown when it fired in the
   tick. *)
C39_TimersPositiveAfterTick ==
    op.name = "boss_ai" =>
        \A b \in Bosses(prev) \cap DOMAIN prev.Position \cap DOMAIN prev.Health :
            LET ai == world.BossAI[b] IN
            /\ LogCount("execute_pattern", b, b) <= 1
            /\ LogCount("teleport_boss", b, b) <= 1
            /\ ai.pattern_cooldown > 0 =>
                  /\ ai.pattern_timer > 0
                  /\ LogHas("execute_pattern", b, b) => ai.pattern_timer = ai.pattern_cooldown
            /\ ai.teleport_cooldown > 0 =>
                  /\ ai.teleport_timer > 0
                  /\ LogHas("teleport_boss", b, b) => ai.teleport_timer = ai.teleport_cooldown

-----------------------------------------------------------------------------
(* C40: a blocked hit never refreshes the window.  A collision pass that
   starts with the player holding Invincible leaves its remaining time as it
   was, whatever touched the player.  An invincibility tick of dt > 0 leaves
   the remaining time lower by dt, and removes the component when nothing
   is left, so a granted window ends after finitely many ticks.  A collision
   pass that starts with the player holding no Invincible and an enemy on
   the player takes health from the player again and grants a new window. *)
C40_BlockedHitsDoNotExtendWindow ==
    \A pl \in prev.Player \cap DOMAIN prev.Health :
        /\ (op.name = "collision" /\ pl \in DOMAIN prev.Invincible) =>
              /\ pl \in DOMAIN world.Invincible
              /\ world.Invincible[pl] = prev.Invincible[pl]
              /\ world.Health[pl].current = prev.Health[pl].current
        /\ (op.name = "invincibility" /\ pl \in DOMAIN prev.Invincible) =>
              /\ op.dt > 0
              /\ pl \in DOMAIN world.Invincible <=> prev.Invincible[pl] - op.dt > 0
              /\ pl \in DOMAIN world.Invincible =>
                    world.Invincible[pl] = prev.Invincible[pl] - op.dt
        /\ ( /\ op.name = "collision"
             /\ pl \notin DOMAIN prev.Invincible
             /\ \E e \in prev.Enemy : Overlap(prev, e, pl) ) =>
              /\ world.Health[pl].current < prev.Health[pl].current
              /\ pl \in DOMAIN world.Invincible
              /\ world.Invincible[pl] = INVINCIBILITY_DURATION

\* reached: a window that had partly run down was not restarted by the
\* enemy touching the invincible player
C40_Witness ==
    /\ op.name = "collision"
    /\ \E pl \in prev.Player \cap DOMAIN prev.Invincible :
          /\ prev.Invincible[pl] < INVINCIBILITY_DURATION
          /\ \E e \in prev.Enemy : LogHas("enemy_contact_player", e, pl)
          /\ world.Invincible[pl] = prev.Invincible[pl]

====
